---- MODULE Spec2Model ----
(***************************************************************************)
(* A model of go-apt-cacher (cybozu-go/aptutil): the download coordinator  *)
(* of package cacher (Cacher.Get, Cacher.Download, the download goroutine, *)
(* the refresh driver maintRelease), the on-disk Storage it commits to and *)
(* the FileInfo records that authorise cached bodies.                      *)
(*                                                                         *)
(* A logical path is the list of its components ("u/Release" is            *)
(* <<"u", "Release">>): strings.SplitN(p, "/", 2) yields the two parts.    *)
(* A file body is a small integer; its digests are injective functions of  *)
(* it.  Body 0 stands for bytes that match no authorised record.           *)
(***************************************************************************)
EXTENDS Integers, Sequences, FiniteSets, TLC

\* ------------------------------------------------------------------ bounds
\* Number of concurrent client requests (each one call of Cacher.Get).
NClients == 2
\* Number of refresh ticks the ticker of maintRelease delivers.
MaxTicks == 1
\* Number of delayed deletions of a recent status that may be pending for a path.
MaxTimers == 1
\* Number of requests for one path upstream answers.
MaxReq == 2
\* Number of requests for one path upstream answers where each path is
\* fetched once.
ReqPerPath == 1
\* Number of versions of the repository upstream publishes.
MaxVer == 2
\* Config.MaxConns as configured for the modelled instance.
MaxConns == 2
\* Capacity of the items storage in bytes (cache_capacity).
ItemCapacity == 4
\* Largest capacity of the Storage used on its own (0: no eviction).
StoreCapacity == 3
\* Largest logical clock the Storage used on its own is driven to.
MaxClock == 4
\* Runs of go-apt-mirror on one root directory.
MaxRuns == 2
ReuseRuns == 3
MaxLines == 4
\* Download goroutines started where the locks are followed.
MaxFetches == 2
\* Config.MaxConns where the locks are followed: downloads of one host wait
\* for one another.
LockConns == 1

\* ------------------------------------------------------- program constants
StatusOK == 200
StatusNotFound == 404
StatusInternalServerError == 500
StatusForbidden == 403
\* Mirror: retries one download makes.
httpRetries == 5

Clients == 1..NClients

\* ----------------------------------------------------------------- paths
Release == <<"u", "Release">>
ReleaseGpg == <<"u", "Release.gpg">>
Contents == <<"u", "Contents">>
Unmapped == <<"x", "Contents">>

Paths == {Release, ReleaseGpg, Contents}

\* URLMap.URL: nil unless the first path component is a registered prefix.
Routable(p) == p[1] = "u"

\* Compressed indices a client may ask for; no fetch of the model is for them.
PackagesXz == <<"u", "Packages.xz">>
PackagesLzma == <<"u", "Packages.lzma">>
PackagesLz == <<"u", "Packages.lz">>

CompressedPaths == {PackagesXz, PackagesLzma, PackagesLz}

\* path.Ext of the names the model uses.
Ext(name) ==
    CASE name = "Release.gpg" -> ".gpg"
      [] name = "Packages.xz" -> ".xz"
      [] name = "Packages.lzma" -> ".lzma"
      [] name = "Packages.lz" -> ".lz"
      [] OTHER -> ""

\* The name without its extension, for the compressed names of the model.
Stem(name) ==
    CASE name \in {"Packages.xz", "Packages.lzma", "Packages.lz"} -> "Packages"
      [] OTHER -> name

\* apt.IsMeta: the base name, stripped of a compression suffix, is an index.
IsMeta(name) ==
    LET base == IF Ext(name) \in {".gz", ".bz2", ".xz", ".lzma", ".lz"}
                THEN Stem(name)
                ELSE name
    IN base \in {"Release", "Release.gpg", "InRelease", "Packages", "Sources", "Index"}

\* apt.IsSupported
IsSupported(name) == Ext(name) \in {"", ".gz", ".bz2", ".gpg", ".xz"}

\* -------------------------------------------------------------- FileInfo
\* A digest of 0 is the nil slice: no checksum of that kind.
NoSum == 0
MD5Of(b) == 100 + b
SHA1Of(b) == 200 + b
SHA256Of(b) == 300 + b

\* The bodies upstream publishes at repository version v.
ContentsBody(v) == 30 + v
ReleaseBody(v) == 10 + v
GpgBody(v) == 20 + v
\* Bytes that are no version of any file (a corrupted or foreign response).
Garbage == 0

\* len(data)
SizeOf(b) == IF b = ContentsBody(1) THEN 1 ELSE 2

\* apt.MakeFileInfoNoChecksum
MakeFileInfoNoChecksum(path, size) ==
    [path |-> path, size |-> size, md5sum |-> NoSum, sha1sum |-> NoSum, sha256sum |-> NoSum]

\* FileInfo.CalcChecksums
CalcChecksums(fi, data) ==
    [fi EXCEPT !.size = SizeOf(data), !.md5sum = MD5Of(data),
               !.sha1sum = SHA1Of(data), !.sha256sum = SHA256Of(data)]

\* apt.MakeFileInfo
MakeFileInfo(path, data) == CalcChecksums(MakeFileInfoNoChecksum(path, 0), data)

\* apt.CopyWithFileInfo: the record of the bytes copied to the tempfile.
CopyWithFileInfo(path, data) == MakeFileInfo(path, data)

\* FileInfo.HasChecksum
HasChecksum(fi) == fi.md5sum # NoSum

\* A Same that compares the path and the size only.
SameSize(fi, t) == fi.path = t.path /\ fi.size = t.size

\* FileInfo.Same: fi.Same(t)
Same(fi, t) ==
    \/ fi = t
    \/ /\ fi.path = t.path
       /\ fi.size = t.size
       /\ ~(fi.md5sum # NoSum /\ fi.md5sum # t.md5sum)
       /\ ~(fi.sha1sum # NoSum /\ fi.sha1sum # t.sha1sum)
       /\ ~(fi.sha256sum # NoSum /\ fi.sha256sum # t.sha256sum)

\* apt.ExtractFileInfo followed by addPrefix: the records a meta file lists.
\* A Release of version v lists Contents with the three digests of its body;
\* Release.gpg lists nothing; bytes that do not parse yield no record
\* (download accepts broken meta data as is).
ExtractFileInfo(prefix, name, data) ==
    IF name = "Release" /\ data \in {ReleaseBody(v) : v \in 1..MaxVer}
    THEN {MakeFileInfo(<<prefix, "Contents">>, ContentsBody(data - 10))}
    ELSE {}

\* ---------------------------------------------------------------- Storage
\* A Storage is [cache, used, lclock, lru, files]: cache maps a path to its
\* entry [fi, atime]; lru is the array container/heap works on, holding the
\* paths of the entries (an entry's index is its position in lru); files
\* maps a path to the bytes of <dir>/<path>.cache.
\* make(map[...]...)
EmptyMap == [q \in {} |-> 0]

NewStorage == [cache |-> EmptyMap, used |-> 0, lclock |-> 0, lru |-> <<>>, files |-> EmptyMap]

\* delete(m, k)
MapDelete(m, k) == [q \in DOMAIN m \ {k} |-> m[q]]

\* m[k] = v
MapPut(m, k, v) == [q \in DOMAIN m \cup {k} |-> IF q = k THEN v ELSE m[q]]

\* A Less that orders the heap by the latest atime first.
LessLatestFirst(st, i, j) == st.cache[st.lru[i]].atime > st.cache[st.lru[j]].atime

\* Storage.Less on the heap slots i and j (counted from 1).
Less(st, i, j) == st.cache[st.lru[i]].atime < st.cache[st.lru[j]].atime

\* Storage.Swap
Swap(st, i, j) == [st EXCEPT !.lru = [@ EXCEPT ![i] = st.lru[j], ![j] = st.lru[i]]]

\* Storage.Push: append to lru.
Push(st, p) == [st EXCEPT !.lru = Append(@, p)]

\* Storage.Pop: drop the last slot of lru.
Pop(st) == [st EXCEPT !.lru = SubSeq(@, 1, Len(@) - 1)]

\* container/heap up(h, j) over Less and Swap.
RECURSIVE HeapUp(_, _)
HeapUp(st, j) ==
    IF j <= 1
    THEN st
    ELSE LET i == j \div 2
         IN IF ~Less(st, j, i) THEN st ELSE HeapUp(Swap(st, i, j), i)

\* container/heap down(h, i, n): the storage and the slot the element ends in.
RECURSIVE HeapDown(_, _, _)
HeapDown(st, i, n) ==
    LET j1 == 2 * i
        j2 == j1 + 1
    IN IF j1 > n
       THEN [st |-> st, at |-> i]
       ELSE LET j == IF j2 <= n /\ Less(st, j2, j1) THEN j2 ELSE j1
            IN IF ~Less(st, j, i)
               THEN [st |-> st, at |-> i]
               ELSE HeapDown(Swap(st, i, j), j, n)

\* container/heap Fix(h, i)
HeapFix(st, i) ==
    LET d == HeapDown(st, i, Len(st.lru))
    IN IF d.at > i THEN d.st ELSE HeapUp(d.st, i)

\* container/heap Init(h)
RECURSIVE HeapInitFrom(_, _)
HeapInitFrom(st, i) ==
    IF i < 1 THEN st ELSE HeapInitFrom(HeapDown(st, i, Len(st.lru)).st, i - 1)

HeapInit(st) == HeapInitFrom(st, Len(st.lru) \div 2)

\* container/heap Push(h, x)
HeapPush(st, p) == LET s == Push(st, p) IN HeapUp(s, Len(s.lru))

\* container/heap Pop(h), the storage it leaves: the root is swapped to the
\* end, the heap below it restored, the last slot dropped.
HeapPop(st) ==
    LET n == Len(st.lru)
    IN Pop(HeapDown(Swap(st, 1, n), 1, n - 1).st)

\* container/heap Remove(h, i)
HeapRemove(st, i) ==
    LET n == Len(st.lru)
    IN IF n = i
       THEN Pop(st)
       ELSE LET s == Swap(st, i, n)
                d == HeapDown(s, i, n - 1)
            IN Pop(IF d.at > i THEN d.st ELSE HeapUp(d.st, i))

\* entry.index: the slot of the entry of p.
IndexOf(st, p) == CHOOSE i \in 1..Len(st.lru) : st.lru[i] = p

\* heap.Pop(cm).(*entry): the path of the entry maint evicts next.
LruMin(st) == st.lru[1]

\* A maint that leaves the files of the entries it evicts in the directory.
RECURSIVE MaintKeepsFiles(_, _)
MaintKeepsFiles(st, capacity) ==
    IF capacity > 0 /\ st.used > capacity
    THEN LET p == LruMin(st)
             s == HeapPop(st)
         IN MaintKeepsFiles([s EXCEPT !.cache = MapDelete(s.cache, p),
                                      !.used = s.used - s.cache[p].fi.size],
                            capacity)
    ELSE st

\* A maint that evicts one entry at most.
MaintOnce(st, capacity) ==
    IF capacity > 0 /\ st.used > capacity
    THEN LET p == LruMin(st)
             s == HeapPop(st)
         IN [s EXCEPT !.cache = MapDelete(s.cache, p),
                      !.used = s.used - s.cache[p].fi.size,
                      !.files = MapDelete(s.files, p)]
    ELSE st

\* Storage.maint
RECURSIVE Maint(_, _)
Maint(st, capacity) ==
    IF capacity > 0 /\ st.used > capacity
    THEN LET p == LruMin(st)
             s == HeapPop(st)
         IN Maint([s EXCEPT !.cache = MapDelete(s.cache, p),
                            !.used = s.used - s.cache[p].fi.size,
                            !.files = MapDelete(s.files, p)], capacity)
    ELSE st

\* A path as the list of its components: "a/b" is <<"a", "b">>, "/a" is
\* <<"", "a">>, "./a" is <<".", "a">>, "." is <<".">> and "" is <<"">>.
\* filepath.IsAbs
IsAbs(p) == Len(p) > 1 /\ p[1] = ""

\* filepath.Clean of the paths of the model, none of which has a ".."
\* component: "." components and empty ones after the first are dropped, and
\* the empty result is ".".
RECURSIVE CleanTail(_)
CleanTail(p) ==
    IF p = <<>> THEN <<>>
    ELSE IF Head(p) \in {"", "."} THEN CleanTail(Tail(p))
         ELSE <<Head(p)>> \o CleanTail(Tail(p))

Clean(p) ==
    LET t == CleanTail(p)
    IN IF IsAbs(p) THEN <<"">> \o t
       ELSE IF t = <<>> THEN <<".">> ELSE t

\* A switch on p that tests p against its cleaned form only.
BadPathUncleanOnly(p) == p # Clean(p)

\* Storage.Insert, the switch on p: ErrBadPath.
BadPath(p) == p # Clean(p) \/ IsAbs(p) \/ p = <<".">>

\* An Insert that leaves the size of the entry it replaces in used.
InsertKeepsOldSize(st, capacity, fi, data, fault) ==
    LET p == fi.path
        existing == p \in DOMAIN st.cache
        s1 == IF existing
              THEN LET h == HeapRemove(st, IndexOf(st, p))
                   IN [h EXCEPT !.cache = MapDelete(st.cache, p),
                                !.files = MapDelete(st.files, p)]
              ELSE st
        s2 == [s1 EXCEPT !.files = MapPut(s1.files, p, data),
                         !.used = s1.used + fi.size,
                         !.lclock = s1.lclock + 1,
                         !.cache = MapPut(s1.cache, p, [fi |-> fi, atime |-> s1.lclock])]
    IN IF BadPath(p) \/ fault # "none"
       THEN [st |-> st, err |-> IF BadPath(p) THEN "ErrBadPath" ELSE fault]
       ELSE [st |-> Maint(HeapPush(s2, p), capacity), err |-> "nil"]

\* Storage.Insert of a tempfile holding data under record fi: the storage it
\* leaves and the error it returns.  fault names the system call that fails
\* with an error other than "not exist": "remove" (os.Remove of the existing
\* file), "link" (os.Link), or "none".
InsertResult(st, capacity, fi, data, fault) ==
    LET p == fi.path
        existing == p \in DOMAIN st.cache
        s1 == IF existing
              THEN LET h == HeapRemove(st, IndexOf(st, p))
                   IN [h EXCEPT !.used = st.used - st.cache[p].fi.size,
                                !.cache = MapDelete(st.cache, p),
                                !.files = MapDelete(st.files, p)]
              ELSE st
        s2 == [s1 EXCEPT !.files = MapPut(s1.files, p, data),
                         !.used = s1.used + fi.size,
                         !.lclock = s1.lclock + 1,
                         !.cache = MapPut(s1.cache, p, [fi |-> fi, atime |-> s1.lclock])]
    IN CASE BadPath(p) -> [st |-> st, err |-> "ErrBadPath"]
         [] ~BadPath(p) /\ existing /\ fault = "remove" -> [st |-> st, err |-> "remove"]
         [] ~BadPath(p) /\ ~(existing /\ fault = "remove") /\ fault = "link" -> [st |-> s1, err |-> "link"]
         [] OTHER -> [st |-> Maint(HeapPush(s2, p), capacity), err |-> "nil"]

\* Storage.Insert where no system call fails (a clean path, the hardlink
\* succeeds): the storage it leaves.
Insert(st, capacity, fi, data) == InsertResult(st, capacity, fi, data, "none").st

\* calcChecksum: the entry's record after the delayed checksum calculation.
CalcChecksum(st, p) ==
    IF HasChecksum(st.cache[p].fi)
    THEN st.cache[p].fi
    ELSE CalcChecksums(st.cache[p].fi, st.files[p])

\* Storage.Lookup, the error it returns: TRUE when a file is returned.
LookupFound(st, fi) ==
    /\ fi.path \in DOMAIN st.cache
    /\ Same(fi, CalcChecksum(st, fi.path))

\* Storage.Lookup, the storage it leaves.
LookupStore(st, fi) ==
    IF fi.path \notin DOMAIN st.cache
    THEN st
    ELSE LET p == fi.path
             e == CalcChecksum(st, p)
         IN IF Same(fi, e)
            THEN HeapFix([st EXCEPT !.cache[p] = [fi |-> e, atime |-> st.lclock],
                                    !.lclock = st.lclock + 1],
                         IndexOf(st, p))
            ELSE [st EXCEPT !.cache[p].fi = e]

\* A Delete that keeps the size of the deleted entry in used.
DeleteKeepsUsed(st, p, fault) ==
    IF p \notin DOMAIN st.cache \/ fault = "remove"
    THEN [st |-> st, err |-> IF p \in DOMAIN st.cache THEN "remove" ELSE "nil"]
    ELSE LET h == HeapRemove(st, IndexOf(st, p))
         IN [st |-> [h EXCEPT !.cache = MapDelete(st.cache, p),
                              !.files = MapDelete(st.files, p)],
             err |-> "nil"]

\* Storage.Delete: the storage it leaves and the error it returns; fault is
\* "remove" when os.Remove fails with an error other than "not exist".
DeleteResult(st, p, fault) ==
    IF p \notin DOMAIN st.cache
    THEN [st |-> st, err |-> "nil"]
    ELSE IF fault = "remove"
         THEN [st |-> st, err |-> "remove"]
         ELSE LET h == HeapRemove(st, IndexOf(st, p))
              IN [st |-> [h EXCEPT !.used = st.used - st.cache[p].fi.size,
                                   !.cache = MapDelete(st.cache, p),
                                   !.files = MapDelete(st.files, p)],
                  err |-> "nil"]

\* The paths of the model in the lexical order filepath.Walk visits them.
WalkOrder ==
    << <<"s", "a">>, <<"s", "b">>, <<"s", "c">>,
       <<"u", "Contents">>, <<"u", "Release">>, <<"u", "Release.gpg">> >>

\* The first of the paths ps that filepath.Walk visits.
WalkFirst(ps) ==
    LET i == CHOOSE k \in 1..Len(WalkOrder) :
                 /\ WalkOrder[k] \in ps
                 /\ \A m \in 1..Len(WalkOrder) : WalkOrder[m] \in ps => k <= m
    IN WalkOrder[i]

\* Storage.Load, the walk over a directory holding files (path -> bytes): one
\* entry without checksums per file that has no entry yet.
RECURSIVE LoadWalk(_, _)
LoadWalk(st, files) ==
    IF DOMAIN files = {}
    THEN st
    ELSE LET p == WalkFirst(DOMAIN files)
             size == SizeOf(files[p])
         IN IF p \in DOMAIN st.cache
            THEN LoadWalk(st, MapDelete(files, p))
            ELSE LoadWalk([st EXCEPT !.cache = MapPut(st.cache, p,
                                        [fi |-> MakeFileInfoNoChecksum(p, size), atime |-> st.lclock]),
                                     !.used = st.used + size,
                                     !.lclock = st.lclock + 1,
                                     !.lru = Append(st.lru, p),
                                     !.files = MapPut(st.files, p, files[p])],
                          MapDelete(files, p))

\* Storage.Load of a storage whose directory holds files: the walk, heap.Init
\* and maint.
LoadInto(st, files, capacity) == Maint(HeapInit(LoadWalk(st, files)), capacity)

\* NewStorage followed by Load.
Load(files, capacity) == LoadInto(NewStorage, files, capacity)

\* ------------------------------------------------------------------ state
VARIABLES
    info,        \* Cacher.info: path -> FileInfo
    meta,        \* Cacher.meta: the Storage of meta data files (capacity 0)
    items,       \* Cacher.items: the Storage of the other files
    dlChannels,  \* Cacher.dlChannels: the paths with an in-flight event
    results,     \* Cacher.results: path -> last HTTP status
    timers,      \* pending delayed deletions of results[p], per path
    tasks,       \* the download goroutines, by slot
    hostSem,     \* Cacher.hostSem: host -> tokens in the channel
    client,      \* the calls of Cacher.Get, by client
    driver,      \* the maintRelease goroutines, by path
    ticks,       \* ticks delivered by the tickers so far
    upVer,       \* the version upstream publishes now
    upReq,       \* upstream GETs issued so far, per path
    upAllOk,     \* every upstream answer so far was 200 with the published bytes
    relCached,   \* version of the Release most recently committed (0: none)
    maxConns,    \* Cacher.maxConns: Config.MaxConns of the running instance
    cm,          \* a Storage used on its own, as the storage tests use it
    cmCapacity,  \* cm.capacity
    call,        \* the last call on cm and the error it returned
    looked,      \* the paths of cm whose entry got its atime from a Lookup
    mroot,       \* the mirror's root directory: symlinks and stamped trees
    mrun,        \* the run of go-apt-mirror in progress, if any
    fconf,       \* what one downloadRelease or downloadFiles call is made with
    fsem,        \* Mirror.semaphore: tokens in the channel
    dl,          \* the Mirror.download goroutines of that call, by file
    frun,        \* that call: the loop that starts them and the one that
                 \* receives their results
    cmp,         \* a call fi.Same(t) made on its own: the records and the result
    lk,          \* the cacher's goroutines and locks, statement by statement
    ru,          \* the mirror's reuseOrDownload over records: the current
                 \* tree's info, the new tree's, and what was asked upstream
    prs          \* a Parser on its own: the lines left and what Read returned

\* The state of the cacher and of what surrounds it.
cacherVars == <<info, meta, items, dlChannels, results, timers, tasks, hostSem,
                client, driver, ticks, upVer, upReq, upAllOk, relCached, maxConns>>

\* The state of the Storage used on its own.
storageVars == <<cm, cmCapacity, call, looked>>

\* The state of the mirror.
mirrorVars == <<mroot, mrun>>

\* The state of one downloadRelease or downloadFiles call of the mirror.
fetchVars == <<fconf, fsem, dl, frun>>

vars == <<cacherVars, storageVars, mirrorVars, fetchVars, cmp, lk, ru, prs>>

\* What a step of the cacher leaves alone, what a call on cm does, and what
\* a step of the mirror does.
nonCacherVars == <<storageVars, mirrorVars, fetchVars, cmp, lk, ru, prs>>
nonStorageVars == <<cacherVars, mirrorVars, fetchVars, cmp, lk, ru, prs>>
nonMirrorVars == <<cacherVars, storageVars, fetchVars, cmp, lk, ru, prs>>
nonFetchVars == <<cacherVars, storageVars, mirrorVars, cmp, lk, ru, prs>>
nonCmpVars == <<cacherVars, storageVars, mirrorVars, fetchVars, lk, ru, prs>>
nonLockVars == <<cacherVars, storageVars, mirrorVars, fetchVars, cmp, ru, prs>>
nonReuseVars == <<cacherVars, storageVars, mirrorVars, fetchVars, cmp, lk, prs>>
nonParseVars == <<cacherVars, storageVars, mirrorVars, fetchVars, cmp, lk, ru>>

TaskIds == 1..(Cardinality(Paths) + 1)

Host == "h"

\* u.Host of um.URL(p): every mapped prefix is served by one host.
HostOf(p) == Host

\* A download goroutine: its position, its arguments p and valid, the answer
\* to its request, statusCode, and what is recorded of its history: how the
\* handling of the answer ended (cause) and whether a later call of Download
\* was handed its event (joined).
FreeTask == [pc |-> "free", path |-> Release, valid |-> <<>>, statusCode |-> 0,
             resp |-> [kind |-> "none", body |-> 0, code |-> 0], cause |-> "none",
             joined |-> FALSE, ctx |-> FALSE]

\* A call of Get: its position, its arguments and locals, its results, and
\* what is recorded of its history: the calls released with it by the event it
\* first waited on (cohort), the Release version committed when it started
\* (rel), whether its path had a store entry when it started (stored) and
\* whether one of its Download calls started a fetch task (started).
IdleClient == [pc |-> "idle", path |-> Release, fi |-> <<>>, status |-> 0, body |-> 0,
               cohort |-> {}, rel |-> 0, stored |-> FALSE, started |-> FALSE]

NoDriver == [pc |-> "none", w1 |-> FALSE, w2 |-> FALSE, n |-> 0]

\* The storage a path belongs to: c.meta if apt.IsMeta(p), else c.items.
StorageOf(p, m, i) == IF IsMeta(p[2]) THEN m ELSE i

\* A maintMeta that starts no goroutine.
MaintMetaIdle(drv, p) == drv

\* maintMeta: a refresh driver is started for Release and InRelease.
MaintMeta(drv, p) ==
    IF p[2] \in {"Release", "InRelease"}
    THEN [drv EXCEPT ![p] = [pc |-> "tick", w1 |-> FALSE, w2 |-> FALSE, n |-> drv[p].n + 1]]
    ELSE drv

\* for _, fi2 := range fil { c.info[fi2.Path()] = fi2 }
RECURSIVE MergeInfo(_, _)
MergeInfo(inf, fil) ==
    IF fil = {}
    THEN inf
    ELSE LET fi2 == CHOOSE x \in fil : TRUE
         IN MergeInfo(MapPut(inf, fi2.path, fi2), fil \ {fi2})

\* NewCacher, first loop: meta.Lookup of every listed record (which computes
\* the delayed checksums) and the records its file lists.
RECURSIVE RecoverLookups(_, _)
RecoverLookups(st, ps) ==
    IF ps = {}
    THEN st
    ELSE LET p == CHOOSE q \in ps : \A r \in ps : st.cache[q].atime <= st.cache[r].atime
         IN RecoverLookups(LookupStore(st, st.cache[p].fi), ps \ {p})

RECURSIVE RecoverInfo(_, _, _)
RecoverInfo(inf, st, ps) ==
    IF ps = {}
    THEN inf
    ELSE LET p == CHOOSE q \in ps : TRUE
         IN RecoverInfo(MergeInfo(inf, ExtractFileInfo(p[1], p[2], st.files[p])), st, ps \ {p})

\* NewCacher, second loop: meta files no record lists get their own record
\* and maintMeta.
RECURSIVE RecoverMetas(_, _, _)
RecoverMetas(acc, st, ps) ==
    IF ps = {}
    THEN acc
    ELSE LET p == CHOOSE q \in ps : TRUE
         IN IF p \in DOMAIN acc.info
            THEN RecoverMetas(acc, st, ps \ {p})
            ELSE RecoverMetas([info |-> MapPut(acc.info, p, st.cache[p].fi),
                               driver |-> MaintMeta(acc.driver, p)], st, ps \ {p})

\* apt.ExtractFileInfo returns an error: the bytes of a Release that the
\* parser cannot read.
ExtractFails(name, data) ==
    name \in {"Release", "InRelease"} /\ data \notin {ReleaseBody(v) : v \in 1..MaxVer}

\* NewCacher returns the error of ExtractFileInfo for a file of the meta
\* directory.
RecoveryError(metaFiles) ==
    \E p \in DOMAIN metaFiles : ExtractFails(p[2], metaFiles[p])

\* NewCacher on a meta directory and a cache directory.
NewCacher(metaFiles, cacheFiles) ==
    LET m0 == Load(metaFiles, 0)
        i0 == Load(cacheFiles, ItemCapacity)
        m1 == RecoverLookups(m0, DOMAIN m0.cache)
        inf == RecoverInfo(EmptyMap, m1, DOMAIN m1.cache)
        acc == RecoverMetas([info |-> inf, driver |-> [p \in Paths |-> NoDriver]],
                            m1, DOMAIN m1.cache)
    IN [meta |-> m1, items |-> i0, info |-> acc.info, driver |-> acc.driver]

\* No call was made on cm.
Called(op, path, fi, data, err, evicted, replaced) ==
    [op |-> op, path |-> path, fi |-> fi, data |-> data, err |-> err,
     evicted |-> evicted, replaced |-> replaced]

NoCall == Called("none", <<>>, <<>>, 0, "nil", {}, FALSE)

\* The state NewCacher leaves when started on the directories d with
\* Config.MaxConns = conns, before any request.
CacherStarted(d, conns) ==
    /\ maxConns = conns
    /\ LET nc == NewCacher(d.meta, d.cache)
       IN /\ info = nc.info
          /\ meta = nc.meta
          /\ items = nc.items
          /\ driver = nc.driver
          /\ relCached = IF Release \in DOMAIN d.meta THEN 1 ELSE 0
    /\ dlChannels = {}
    /\ results = EmptyMap
    /\ timers = [p \in Paths |-> 0]
    /\ tasks = [t \in TaskIds |-> FreeTask]
    /\ hostSem = EmptyMap
    /\ client = [c \in Clients |-> IdleClient]
    /\ ticks = 0
    /\ upVer = 1
    /\ upReq = [p \in Paths |-> 0]
    /\ upAllOk = TRUE

\* No Storage is used on its own.
StorageUnused ==
    /\ cm = NewStorage
    /\ cmCapacity = 0
    /\ call = NoCall
    /\ looked = {}

\* The root directory of a mirror before its first run: no symlink
\* <root>/<id> (link = 0), no <root>/<id>.tmp, no stamped directory, no run
\* so far (now = 0).
EmptyRoot == [link |-> 0, tmp |-> 0, trees |-> EmptyMap, now |-> 0]

\* No run of go-apt-mirror is in progress.
NoRun == [pc |-> "idle", stamp |-> 0, current |-> 0, curInfo |-> {}, auth |-> {},
          left |-> {}, cancelled |-> FALSE, failedAt |-> "none",
          relLeft |-> {}, last |-> <<"none", 0>>]

\* No mirror is run.
MirrorUnused ==
    /\ mroot = EmptyRoot
    /\ mrun = NoRun

\* No call of downloadRelease or downloadFiles is looked at on its own.
NoConf == [kind |-> "none", byhash |-> FALSE, maxConns |-> 0, files |-> {}]

NoFetch == [pc |-> "none", todo |-> {}, handled |-> {}, stored |-> {},
            cancelled |-> FALSE, err |-> "nil", rod |-> "loop", closed |-> 0]

FetchUnused ==
    /\ fconf = NoConf
    /\ fsem = 0
    /\ dl = EmptyMap
    /\ frun = NoFetch

\* No reuseOrDownload is followed.
NoReuse == [pc |-> "none"]

\* No Parser is followed.
NoParse == [pc |-> "none"]

\* No FileInfo.Same is called on its own.
NoCmp == [fi |-> <<>>, t |-> <<>>, called |-> FALSE, ret |-> FALSE]

\* Cacher.fiLock, Cacher.dlLock and Storage.mu.
Locks == {"fiLock", "dlLock", "mu"}

\* The goroutines whose statements are followed: calls of Get, a
\* maintRelease, and per download started its goroutine and the goroutine
\* that deletes its status after cachePeriod.
LockProcs ==
    ({"get"} \X (1..NClients)) \cup {<<"driver", 1>>}
        \cup ({"download", "timer"} \X (1..MaxFetches))

\* The paths they ask for: a meta data file that gets a maintRelease, and a
\* file of the items.
LockPaths == {"InRelease", "pool"}

\* No goroutine runs and no lock is held.  pc is the statement a goroutine
\* is at (0: it does not run), path the p it was called with, ev the event
\* it got from dlChannels or Download (0: none); rd, wr and wq are the
\* readers, the writer and the waiting writers of each lock; sem the tokens
\* of the host's channel; inflight is dlChannels (0: no entry, else the
\* download that made the event); closed the events closed; started the
\* downloads started; driven whether maintMeta has started the maintRelease.
NoLocks ==
    [pc |-> [q \in LockProcs |-> 0],
     path |-> [q \in LockProcs |-> "InRelease"],
     ev |-> [q \in LockProcs |-> 0],
     rd |-> [l \in Locks |-> {}],
     wr |-> [l \in Locks |-> <<>>],
     wq |-> [l \in Locks |-> {}],
     sem |-> LockConns,
     inflight |-> [q \in LockPaths |-> 0],
     closed |-> {},
     started |-> 0,
     driven |-> FALSE]

StartedWith(d, conns) ==
    /\ CacherStarted(d, conns)
    /\ StorageUnused /\ MirrorUnused /\ FetchUnused
    /\ cmp = NoCmp /\ lk = NoLocks /\ ru = NoReuse /\ prs = NoParse

Started(d) == StartedWith(d, MaxConns)

\* Directories an earlier run can have left.
EmptyDirs == [meta |-> EmptyMap, cache |-> EmptyMap]
\* Contents was cached while no Release was.
ItemDirs == [meta |-> EmptyMap, cache |-> [q \in {Contents} |-> ContentsBody(1)]]
\* The Release of version 1 was cached.
ReleaseDirs == [meta |-> [q \in {Release} |-> ReleaseBody(1)], cache |-> EmptyMap]

\* The cacher is started on empty directories or on what an earlier run left.
Init == \E d \in {EmptyDirs, ItemDirs, ReleaseDirs} : Started(d)

\* The cacher is started on a meta directory that holds a Release.
InitRefresh == Started(ReleaseDirs)

\* ----------------------------------------------------------- Cacher.Download
\* A plausible slip: Download never finds the in-flight event.
DownloadNeverExisting(p) == FALSE

\* Download: ch, ok := c.dlChannels[p]; if ok { return ch }
DownloadReturnsExisting(p) == p \in dlChannels

LeastFreeTask == CHOOSE t \in TaskIds : tasks[t].pc = "free" /\ \A u \in TaskIds : tasks[u].pc = "free" => t <= u

\* Cacher.Download(p, valid) under dlLock: the existing event, or a new event
\* and a new download goroutine.
Download(p, valid) ==
    IF DownloadReturnsExisting(p)
    THEN /\ UNCHANGED dlChannels
         /\ tasks' = [t \in TaskIds |->
                IF tasks[t].pc # "free" /\ tasks[t].path = p
                THEN [tasks[t] EXCEPT !.joined = TRUE]
                ELSE tasks[t]]
    ELSE /\ \E t \in TaskIds : tasks[t].pc = "free"
         /\ dlChannels' = dlChannels \cup {p}
         /\ tasks' = [tasks EXCEPT ![LeastFreeTask] =
                         [FreeTask EXCEPT !.pc = "sem", !.path = p, !.valid = valid,
                                          !.statusCode = StatusInternalServerError]]

\* ---------------------------------------------------------------- Cacher.Get
\* Get, up to the label RETRY: 404 for an unmapped prefix and for meta data in
\* an unsupported compression.
GetStart(c, p) ==
    /\ UNCHANGED <<maxConns, nonCacherVars>>
    /\ client[c].pc = "idle"
    /\ LET early == ~Routable(p) \/ (IsMeta(p[2]) /\ ~IsSupported(p[2]))
           st == StorageOf(p, meta, items)
       IN client' = [client EXCEPT ![c] =
              [@ EXCEPT !.pc = IF early THEN "done" ELSE "retry",
                        !.path = p,
                        !.status = IF early THEN StatusNotFound ELSE 0,
                        !.rel = relCached,
                        !.stored = Routable(p) /\ p \in DOMAIN st.cache]]
    /\ UNCHANGED <<info, meta, items, dlChannels, results, timers, tasks, hostSem,
                   driver, ticks, upVer, upReq, upAllOk, relCached>>

\* RETRY: fi, ok := c.info[p] under fiLock.RLock.
GetInfo(c) ==
    /\ UNCHANGED <<maxConns, nonCacherVars>>
    /\ client[c].pc = "retry"
    /\ LET p == client[c].path
           ok == p \in DOMAIN info
       IN client' = [client EXCEPT ![c] =
              [@ EXCEPT !.pc = IF ok THEN "lookup" ELSE "readdl",
                        !.fi = IF ok THEN <<info[p]>> ELSE <<>>]]
    /\ UNCHANGED <<info, meta, items, dlChannels, results, timers, tasks, hostSem,
                   driver, ticks, upVer, upReq, upAllOk, relCached>>

\* A plausible slip: a successful Lookup is treated like ErrNotFound.
GetIgnoresHit(st, fi) == FALSE

\* Get: f, err := storage.Lookup(fi); case nil: return 200
GetLookupHit(st, fi) == LookupFound(st, fi)

\* if ok { f, err := storage.Lookup(fi) ... }
GetLookup(c) ==
    /\ UNCHANGED <<maxConns, nonCacherVars>>
    /\ client[c].pc = "lookup"
    /\ LET p == client[c].path
           fi == client[c].fi[1]
           st == StorageOf(p, meta, items)
           hit == GetLookupHit(st, fi)
       IN /\ client' = [client EXCEPT ![c] =
                 [@ EXCEPT !.pc = IF hit THEN "done" ELSE "readdl",
                           !.status = IF hit THEN StatusOK ELSE 0,
                           !.body = IF hit THEN st.files[p] ELSE 0]]
          /\ IF IsMeta(p[2])
             THEN meta' = LookupStore(meta, fi) /\ UNCHANGED items
             ELSE items' = LookupStore(items, fi) /\ UNCHANGED meta
    /\ UNCHANGED <<info, dlChannels, results, timers, tasks, hostSem,
                   driver, ticks, upVer, upReq, upAllOk, relCached>>

\* A plausible slip: the cached status is not consulted.
GetNeverNegative(p) == FALSE

\* Get: if resultOk && result != http.StatusOK { return result, nil, nil }
GetReturnsNegative(p) == p \in DOMAIN results /\ results[p] # StatusOK

\* ch, chOk := c.dlChannels[p]; result, resultOk := c.results[p] under
\* dlLock.RLock, then the choice between return, <-ch and Download.
GetReadDl(c) ==
    /\ UNCHANGED <<maxConns, nonCacherVars>>
    /\ client[c].pc = "readdl"
    /\ LET p == client[c].path
       IN client' = [client EXCEPT ![c] =
              IF GetReturnsNegative(p)
              THEN [@ EXCEPT !.pc = "done", !.status = results[p]]
              ELSE IF p \in dlChannels
                   THEN [@ EXCEPT !.pc = "wait"]
                   ELSE [@ EXCEPT !.pc = "download"]]
    /\ UNCHANGED <<info, meta, items, dlChannels, results, timers, tasks, hostSem,
                   driver, ticks, upVer, upReq, upAllOk, relCached>>

\* <-c.Download(p, fi): the call of Download; the receive is the state "wait".
GetDownload(c) ==
    /\ UNCHANGED <<maxConns, nonCacherVars>>
    /\ client[c].pc = "download"
    /\ LET p == client[c].path
       IN /\ Download(p, client[c].fi)
          /\ client' = [client EXCEPT ![c] =
                 [@ EXCEPT !.pc = "wait",
                           !.started = @ \/ ~DownloadReturnsExisting(p)]]
    /\ UNCHANGED <<info, meta, items, results, timers, hostSem,
                   driver, ticks, upVer, upReq, upAllOk, relCached>>

\* ------------------------------------------------------------- the upstream
\* The bytes upstream publishes for p at version v.
BodyOf(p, v) ==
    CASE p = Release -> ReleaseBody(v)
      [] p = ReleaseGpg -> GpgBody(v)
      [] OTHER -> ContentsBody(v)

Resp(kind, body, code) == [kind |-> kind, body |-> body, code |-> code]

\* What c.client.Do and the read of resp.Body may deliver for a request of
\* p: the published bytes, other bytes, a status other than 200, a transport
\* error, or an error while the body is read.
Responses(p) ==
    { Resp("ok", BodyOf(p, upVer), StatusOK),
      Resp("ok", Garbage, StatusOK),
      Resp("status", 0, StatusNotFound),
      Resp("neterr", 0, 0),
      Resp("readerr", 0, StatusOK) }

\* An upstream that is up and serves what it publishes.
Published(p) == { Resp("ok", BodyOf(p, upVer), StatusOK) }

\* An upstream that answers every request with 200, never with bytes the
\* cacher can accept: other bytes, or a body whose read fails.
Broken(p) == { Resp("ok", Garbage, StatusOK), Resp("readerr", 0, StatusOK) }

Min(a, b) == IF a < b THEN a ELSE b

\* Upstream publishes the next version of the repository.
UpstreamUpdate ==
    /\ UNCHANGED <<maxConns, nonCacherVars>>
    /\ upVer < MaxVer
    /\ upVer' = upVer + 1
    /\ UNCHANGED <<info, meta, items, dlChannels, results, timers, tasks, hostSem,
                   client, driver, ticks, upReq, upAllOk, relCached>>

\* ------------------------------------------------------- Cacher.download
\* A plausible slip: the channel of a host always looks full of tokens.
TokensNeverTaken(host) == maxConns

\* acquireSemaphore: the tokens left in the host's channel, created lazily.
Tokens(host) == IF host \in DOMAIN hostSem THEN hostSem[host] ELSE maxConns

\* The answers an upstream of the given kind may give to a request of p.
Answers(upstream, p) ==
    CASE upstream = "published" -> Published(p)
      [] upstream = "broken" -> Broken(p)
      [] OTHER -> Responses(p)

\* download: acquireSemaphore(u.Host), then the request is sent; the answer
\* it will get is one an upstream of the given kind gives now, or the
\* context's error if the context is done.  When the
\* requests are counted, upstream answers MaxReq requests per path; a
\* request whose context is done is not sent.
FetchIssue(t, upstream, counted) ==
    /\ UNCHANGED <<maxConns, nonCacherVars>>
    /\ tasks[t].pc = "sem"
    /\ (counted /\ ~tasks[t].ctx) => upReq[tasks[t].path] < MaxReq
    /\ LET p == tasks[t].path
       IN /\ IF maxConns = 0
             THEN UNCHANGED hostSem
             ELSE /\ Tokens(HostOf(p)) > 0
                  /\ hostSem' = MapPut(hostSem, HostOf(p), Tokens(HostOf(p)) - 1)
          /\ \E r \in IF tasks[t].ctx THEN {Resp("neterr", 0, 0)}
                        ELSE Answers(upstream, p) :
                /\ tasks' = [tasks EXCEPT ![t].pc = "req", ![t].resp = r]
                /\ upAllOk' = (upAllOk /\ r.kind = "ok" /\ r.body # Garbage)
          /\ upReq' = [upReq EXCEPT ![p] = IF counted /\ ~tasks[t].ctx
                                           THEN @ + 1 ELSE @]
    /\ UNCHANGED <<info, meta, items, dlChannels, results, timers,
                   client, driver, ticks, upVer, relCached>>

\* A plausible slip: the downloaded data is never checked.
ValidatedAlways(valid, fi) == TRUE

\* download: if valid != nil && !valid.Same(fi) { return }
Validated(valid, fi) == valid = <<>> \/ Same(valid[1], fi)

\* download: statusCode after the response was handled.  It starts as 500,
\* stays so on a transport error, and is resp.StatusCode from then on.
StatusAfter(cur, resp, valid) ==
    IF resp.kind = "neterr" THEN cur ELSE resp.code

\* How the handling of a response ends.
CauseOf(resp, valid, fi) ==
    CASE resp.kind = "ok" /\ Validated(valid, fi) -> "ok"
      [] resp.kind = "ok" -> "mismatch"
      [] OTHER -> resp.kind

\* A download that takes every meta file for a new one.
FirstTimeAlways(inf, p) == IsMeta(p[2])

\* download: p is a meta file with no record in c.info.
FirstTime(inf, p) == IsMeta(p[2]) /\ p \notin DOMAIN inf

\* download, from the response to the deferred cleanup: status, copy to the
\* tempfile, validation, ExtractFileInfo, and under fiLock storage.Insert,
\* the update of c.info and maintMeta.
FetchAnswer(t) ==
    /\ UNCHANGED <<maxConns, nonCacherVars>>
    /\ tasks[t].pc = "req"
    /\ LET p == tasks[t].path
           r == tasks[t].resp
           valid == tasks[t].valid
           fi == CopyWithFileInfo(p, r.body)
           cause == CauseOf(r, valid, fi)
           fil == IF IsMeta(p[2]) THEN ExtractFileInfo(p[1], p[2], r.body) ELSE {}
           info1 == MergeInfo(info, fil)
       IN /\ tasks' = [tasks EXCEPT ![t].pc = "fin", ![t].cause = cause,
                                    ![t].statusCode = StatusAfter(@, r, valid)]
          /\ IF cause = "ok"
             THEN /\ IF IsMeta(p[2])
                     THEN meta' = Insert(meta, 0, fi, r.body) /\ UNCHANGED items
                     ELSE items' = Insert(items, ItemCapacity, fi, r.body) /\ UNCHANGED meta
                  /\ driver' = IF FirstTime(info1, p)
                               THEN MaintMeta(driver, p)
                               ELSE driver
                  /\ info' = MapPut(info1, p, fi)
                  /\ relCached' = IF fil # {} THEN r.body - 10 ELSE relCached
             ELSE UNCHANGED <<meta, items, driver, info, relCached>>
    /\ UNCHANGED <<dlChannels, results, timers, hostSem, client, ticks, upVer, upReq, upAllOk>>

\* The calls of Get blocked on the event of p.
Waiters(p) == {c \in Clients : client[c].pc = "wait" /\ client[c].path = p}

\* The path of the signature a driver of p also refreshes.
GpgOf(p) == <<p[1], "Release.gpg">>

\* A driver after the event of q was closed.
DriverAfterClose(d, p, q) ==
    LET w1 == d.w1 /\ q # p
        w2 == d.w2 /\ q # GpgOf(p)
    IN [d EXCEPT !.w1 = w1, !.w2 = w2,
                 !.pc = IF d.pc = "wait" /\ ~w1 /\ ~w2 THEN "tick" ELSE d.pc]

\* A deferred function that does not call releaseSemaphore.
DeferredKeepsToken(t, pending) ==
    /\ UNCHANGED <<maxConns, nonCacherVars>>
    /\ tasks[t].pc = "fin"
    /\ LET p == tasks[t].path
           w == Waiters(p)
       IN /\ hostSem' = hostSem
          /\ dlChannels' = dlChannels \ {p}
          /\ results' = MapPut(results, p, tasks[t].statusCode)
          /\ client' = [c \in Clients |->
                 IF c \in w
                 THEN [client[c] EXCEPT !.pc = "retry",
                                        !.cohort = IF @ = {} THEN w ELSE @]
                 ELSE client[c]]
          /\ driver' = [q \in Paths |-> DriverAfterClose(driver[q], q, p)]
          /\ timers' = [timers EXCEPT ![p] = Min(@ + 1, pending)]
          /\ tasks' = [tasks EXCEPT ![t] = FreeTask]
    /\ UNCHANGED <<info, meta, items, ticks, upVer, upReq, upAllOk, relCached>>

\* download, the deferred function: releaseSemaphore, the in-flight entry is
\* deleted and the status recorded under dlLock, the event is closed, and the
\* deletion of the status after cachePeriod is scheduled.
Deferred(t, pending) ==
    /\ UNCHANGED <<maxConns, nonCacherVars>>
    /\ tasks[t].pc = "fin"
    /\ LET p == tasks[t].path
           w == Waiters(p)
       IN /\ hostSem' = IF maxConns = 0 THEN hostSem
                        ELSE MapPut(hostSem, HostOf(p), Tokens(HostOf(p)) + 1)
          /\ dlChannels' = dlChannels \ {p}
          /\ results' = MapPut(results, p, tasks[t].statusCode)
          /\ client' = [c \in Clients |->
                 IF c \in w
                 THEN [client[c] EXCEPT !.pc = "retry",
                                        !.cohort = IF @ = {} THEN w ELSE @]
                 ELSE client[c]]
          /\ driver' = [q \in Paths |-> DriverAfterClose(driver[q], q, p)]
          /\ timers' = [timers EXCEPT ![p] = Min(@ + 1, pending)]
          /\ tasks' = [tasks EXCEPT ![t] = FreeTask]
    /\ UNCHANGED <<info, meta, items, ticks, upVer, upReq, upAllOk, relCached>>

\* download's deferred function where the delayed deletions that are pending
\* at once are counted up to MaxTimers.
FetchCleanup(t) == Deferred(t, MaxTimers)

\* The same where one more pending deletion is counted, which tells the
\* deletion an earlier download has scheduled from the one of the last.
FetchCleanupPending(t) == Deferred(t, MaxTimers + 1)

\* A plausible slip: the delayed goroutine ends without deleting the status.
TimerFireKeeps(p) ==
    /\ UNCHANGED <<maxConns, nonCacherVars>>
    /\ timers[p] > 0
    /\ timers' = [timers EXCEPT ![p] = @ - 1]
    /\ UNCHANGED <<info, meta, items, dlChannels, results, tasks, hostSem,
                   client, driver, ticks, upVer, upReq, upAllOk, relCached>>

\* The goroutine started by the deferred function: after cachePeriod,
\* delete(c.results, p) under dlLock.
TimerFire(p) ==
    /\ UNCHANGED <<maxConns, nonCacherVars>>
    /\ timers[p] > 0
    /\ timers' = [timers EXCEPT ![p] = @ - 1]
    /\ results' = MapDelete(results, p)
    /\ UNCHANGED <<info, meta, items, dlChannels, tasks, hostSem,
                   client, driver, ticks, upVer, upReq, upAllOk, relCached>>

\* ------------------------------------------------------ Cacher.maintRelease
\* case <-ticker.C: ch1 := c.Download(p, nil)
DriverTick(p) ==
    /\ UNCHANGED <<maxConns, nonCacherVars>>
    /\ driver[p].pc = "tick"
    /\ ticks < MaxTicks
    /\ ticks' = ticks + 1
    /\ Download(p, <<>>)
    /\ driver' = [driver EXCEPT ![p].pc = IF p[2] = "Release" THEN "dl2" ELSE "wait",
                                ![p].w1 = TRUE]
    /\ UNCHANGED <<info, meta, items, results, timers, hostSem,
                   client, upVer, upReq, upAllOk, relCached>>

\* if withGPG { ch2 := c.Download(p+".gpg", nil); <-ch2 }; <-ch1
DriverGpg(p) ==
    /\ UNCHANGED <<maxConns, nonCacherVars>>
    /\ driver[p].pc = "dl2"
    /\ Download(GpgOf(p), <<>>)
    /\ driver' = [driver EXCEPT ![p].pc = "wait", ![p].w2 = TRUE]
    /\ UNCHANGED <<info, meta, items, results, timers, hostSem,
                   client, ticks, upVer, upReq, upAllOk, relCached>>

\* ------------------------------------------------------------ specification
\* Clients ask for Contents (or for a path under no mapped prefix) while
\* upstream answers in any way; nothing is refreshed.
Next ==
    \/ \E c \in Clients, p \in {Contents, Unmapped} : GetStart(c, p)
    \/ \E c \in Clients : GetInfo(c)
    \/ \E c \in Clients : GetLookup(c)
    \/ \E c \in Clients : GetReadDl(c)
    \/ \E c \in Clients : GetDownload(c)
    \/ \E t \in TaskIds : FetchIssue(t, "any", TRUE)
    \/ \E t \in TaskIds : FetchAnswer(t)
    \/ \E t \in TaskIds : FetchCleanup(t)
    \/ \E p \in Paths : TimerFire(p)

Spec == Init /\ [][Next]_vars

\* The calls of Get start in the order of their numbers: the clients are
\* alike, so every other order is one of these under another numbering.
Ordered(c) == \A d \in Clients : d < c => client[d].pc # "idle"

\* Upstream has not yet answered ReqPerPath requests for the path of
\* download t.
Unanswered(t) == upReq[tasks[t].path] < ReqPerPath

\* Clients ask for Contents while the driver of a recovered Release refreshes
\* it and upstream, which serves what it publishes and answers ReqPerPath
\* requests per path, moves on.
NextRefresh ==
    \/ \E c \in Clients : Ordered(c) /\ GetStart(c, Contents)
    \/ \E c \in Clients : GetInfo(c)
    \/ \E c \in Clients : GetLookup(c)
    \/ \E c \in Clients : GetReadDl(c)
    \/ \E c \in Clients : GetDownload(c)
    \/ \E t \in TaskIds : Unanswered(t) /\ FetchIssue(t, "published", TRUE)
    \/ \E t \in TaskIds : FetchAnswer(t)
    \/ \E t \in TaskIds : FetchCleanup(t)
    \/ \E p \in Paths : TimerFire(p)
    \/ \E p \in Paths : DriverTick(p)
    \/ \E p \in Paths : DriverGpg(p)
    \/ UpstreamUpdate

RefreshSpec == InitRefresh /\ [][NextRefresh]_vars

\* Clients ask for Contents, which a recovered Release authorises, while
\* upstream answers every request with 200, never with acceptable bytes.  Every
\* goroutine that can take a step eventually takes it, every request is
\* answered, and every timer fires.
NextLive ==
    \/ \E c \in Clients : GetStart(c, Contents)
    \/ \E c \in Clients : GetInfo(c)
    \/ \E c \in Clients : GetLookup(c)
    \/ \E c \in Clients : GetReadDl(c)
    \/ \E c \in Clients : GetDownload(c)
    \/ \E t \in TaskIds : FetchIssue(t, "broken", FALSE)
    \/ \E t \in TaskIds : FetchAnswer(t)
    \/ \E t \in TaskIds : FetchCleanup(t)
    \/ \E p \in Paths : TimerFire(p)

Fairness ==
    /\ \A c \in Clients : WF_vars(GetInfo(c) \/ GetLookup(c) \/ GetReadDl(c) \/ GetDownload(c))
    /\ \A t \in TaskIds : WF_vars(FetchIssue(t, "broken", FALSE) \/ FetchAnswer(t) \/ FetchCleanup(t))
    /\ \A p \in Paths : WF_vars(TimerFire(p))

LiveSpec == InitRefresh /\ [][NextLive]_vars /\ Fairness

\* The cacher is started on a meta directory that holds a Release, with any
\* Config.MaxConns up to MaxConns (0: no limit).
InitSem == \E n \in 0..MaxConns : StartedWith(ReleaseDirs, n)

\* One client asks for Contents while the driver of the recovered Release
\* refreshes it and its signature, against an upstream that serves what it
\* publishes.
NextSem ==
    \/ GetStart(1, Contents)
    \/ \E c \in Clients : GetInfo(c)
    \/ \E c \in Clients : GetLookup(c)
    \/ \E c \in Clients : GetReadDl(c)
    \/ \E c \in Clients : GetDownload(c)
    \/ \E t \in TaskIds : FetchIssue(t, "published", TRUE)
    \/ \E t \in TaskIds : FetchAnswer(t)
    \/ \E t \in TaskIds : FetchCleanup(t)
    \/ \E p \in Paths : TimerFire(p)
    \/ \E p \in Paths : DriverTick(p)
    \/ \E p \in Paths : DriverGpg(p)

SemSpec == InitSem /\ [][NextSem]_vars

\* The cacher is started on empty directories or on a meta directory that
\* holds a Release.
InitFirst == \E d \in {EmptyDirs, ReleaseDirs} : Started(d)

\* A client asks for the Release, which is cached for the first time or was
\* recovered, while upstream answers in any way and the driver refreshes it
\* and its signature.
NextFirst ==
    \/ GetStart(1, Release)
    \/ \E c \in Clients : GetInfo(c)
    \/ \E c \in Clients : GetLookup(c)
    \/ \E c \in Clients : GetReadDl(c)
    \/ \E c \in Clients : GetDownload(c)
    \/ \E t \in TaskIds : FetchIssue(t, "any", TRUE)
    \/ \E t \in TaskIds : FetchAnswer(t)
    \/ \E t \in TaskIds : FetchCleanup(t)
    \/ \E p \in Paths : TimerFire(p)
    \/ \E p \in Paths : DriverTick(p)
    \/ \E p \in Paths : DriverGpg(p)

FirstSpec == InitFirst /\ [][NextFirst]_vars

\* Clients ask for Contents on a cacher started on empty directories, and
\* the delayed deletions of two downloads can be pending at once.
InitPeriod == Started(EmptyDirs)

NextPeriod ==
    \/ \E c \in Clients : GetStart(c, Contents)
    \/ \E c \in Clients : GetInfo(c)
    \/ \E c \in Clients : GetLookup(c)
    \/ \E c \in Clients : GetReadDl(c)
    \/ \E c \in Clients : GetDownload(c)
    \/ \E t \in TaskIds : FetchIssue(t, "any", TRUE)
    \/ \E t \in TaskIds : FetchAnswer(t)
    \/ \E t \in TaskIds : FetchCleanupPending(t)
    \/ \E p \in Paths : TimerFire(p)

PeriodSpec == InitPeriod /\ [][NextPeriod]_vars

\* ------------------------------------------------- a Storage on its own
\* The logical paths handed to the Storage: three clean ones, and "", ".",
\* "/abs", "./rel" and "s//a".
StorePaths == { <<"s", "a">>, <<"s", "b">>, <<"s", "c">> }
BadPaths == { <<"">>, <<".">>, <<"", "abs">>, <<".", "rel">>, <<"s", "", "a">> }

\* The bytes written to tempfiles: one byte, or two.
StoreBodies == { ContentsBody(1), ContentsBody(2) }

\* The system call that fails during a call, if any.
Faults == {"none", "remove", "link"}

\* A record that carries a SHA256 only, as one taken from a Release that
\* lists no other digest.
SHA256Only(p, d) == [MakeFileInfo(p, d) EXCEPT !.md5sum = NoSum, !.sha1sum = NoSum]

\* The records Lookup is called with: the full record of the smaller body, a
\* record with the SHA256 of the larger body, a record with a size and no
\* checksum, and a record with the SHA256 of other bytes of the larger size.
LookupAsked(p) ==
    {MakeFileInfo(p, ContentsBody(1)), SHA256Only(p, ContentsBody(2)),
     MakeFileInfoNoChecksum(p, SizeOf(ContentsBody(1))), SHA256Only(p, Garbage)}

\* The capacities a Storage is made with: none, room for the smaller body
\* only, and StoreCapacity.
Capacities == {0, SizeOf(ContentsBody(1)), StoreCapacity}

\* NewStorage(dir, capacity) on an empty directory.
InitStorage ==
    /\ CacherStarted(EmptyDirs, MaxConns)
    /\ cm = NewStorage
    /\ cmCapacity \in Capacities
    /\ call = NoCall
    /\ looked = {}
    /\ MirrorUnused
    /\ FetchUnused
    /\ cmp = NoCmp /\ lk = NoLocks /\ ru = NoReuse /\ prs = NoParse

\* insert of the storage tests: TempFile, CopyWithFileInfo of data into it,
\* Sync, then cm.Insert(f.Name(), fi).  call records the call, its error, the
\* paths maint evicted and whether the path had an entry.
CmInsert(p, data, fault) ==
    /\ cm.lclock < MaxClock
    /\ \E fi \in {CopyWithFileInfo(p, data)} :
       \E r \in {InsertResult(cm, cmCapacity, fi, data, fault)} :
       LET evicted == IF r.err = "nil"
                      THEN (DOMAIN cm.cache \cup {p}) \ DOMAIN r.st.cache
                      ELSE {}
       IN /\ cm' = r.st
          /\ call' = Called("Insert", p, <<fi>>, data, r.err, evicted,
                            p \in DOMAIN cm.cache)
          /\ looked' = IF r.err = "nil"
                       THEN (looked \ {p}) \cap DOMAIN r.st.cache
                       ELSE looked \cap DOMAIN r.st.cache
    /\ UNCHANGED <<cmCapacity, nonStorageVars>>

\* cm.Lookup(fi)
CmLookup(fi) ==
    /\ cm.lclock < MaxClock
    /\ cm' = LookupStore(cm, fi)
    /\ call' = Called("Lookup", fi.path, <<fi>>, 0,
                      IF LookupFound(cm, fi) THEN "nil" ELSE "ErrNotFound",
                      {}, FALSE)
    /\ looked' = IF LookupFound(cm, fi) THEN looked \cup {fi.path} ELSE looked
    /\ UNCHANGED <<cmCapacity, nonStorageVars>>

\* cm.Delete(p)
CmDelete(p, fault) ==
    /\ \E r \in {DeleteResult(cm, p, fault)} :
          /\ cm' = r.st
          /\ call' = Called("Delete", p, <<>>, 0, r.err, {}, FALSE)
          /\ looked' = looked \cap DOMAIN r.st.cache
    /\ UNCHANGED <<cmCapacity, nonStorageVars>>

\* cm.Load() called once more on the storage as it is.
CmLoad ==
    /\ cm' = LoadInto(cm, cm.files, cmCapacity)
    /\ call' = Called("Load", <<>>, <<>>, 0, "nil",
                      DOMAIN cm.files \ DOMAIN cm'.cache, FALSE)
    /\ looked' = looked \cap DOMAIN cm'.cache
    /\ UNCHANGED <<cmCapacity, nonStorageVars>>

\* The process is started again on the same directory with capacity c:
\* NewStorage(dir, c), then Load.
CmRestart(c) ==
    /\ cm' = Load(cm.files, c)
    /\ cmCapacity' = c
    /\ call' = Called("Restart", <<>>, <<>>, 0, "nil",
                      DOMAIN cm.files \ DOMAIN cm'.cache, FALSE)
    /\ looked' = {}
    /\ UNCHANGED nonStorageVars

NextStorage ==
    \/ \E p \in StorePaths, data \in StoreBodies, fault \in Faults :
          CmInsert(p, data, fault)
    \/ \E p \in BadPaths : CmInsert(p, ContentsBody(1), "none")
    \/ \E p \in StorePaths : \E fi \in LookupAsked(p) : CmLookup(fi)
    \/ \E p \in StorePaths, fault \in Faults \ {"link"} : CmDelete(p, fault)
    \/ CmLoad
    \/ \E c \in Capacities : CmRestart(c)

StorageSpec == InitStorage /\ [][NextStorage]_vars

\* ------------------------------------------------------------ cancellation
\* Where the end of its context finds a download: at <-sem, which does not
\* look at the context; at client.Do, which returns the context's error; or
\* at the copy of a 200 response's body, which fails.
CancelPoints == {"sem", "response", "body"}

\* The context of download t is done: the environment was cancelled or its
\* requestTimeout has passed.
CtxDone(t, point) ==
    /\ UNCHANGED <<maxConns, nonCacherVars>>
    /\ ~tasks[t].ctx
    /\ CASE point = "sem" ->
              /\ tasks[t].pc = "sem"
              /\ tasks' = [tasks EXCEPT ![t].ctx = TRUE]
         [] point = "response" ->
              /\ tasks[t].pc = "req"
              /\ tasks' = [tasks EXCEPT ![t].ctx = TRUE,
                                        ![t].resp = Resp("neterr", 0, 0)]
         [] OTHER ->
              /\ tasks[t].pc = "req"
              /\ tasks[t].resp.code = StatusOK
              /\ tasks' = [tasks EXCEPT ![t].ctx = TRUE,
                                        ![t].resp = Resp("readerr", 0, StatusOK)]
    /\ UNCHANGED <<info, meta, items, dlChannels, results, timers, hostSem,
                   client, driver, ticks, upVer, upReq, upAllOk, relCached>>

\* Clients ask for Contents while upstream answers in any way and the
\* context of any download may end at any point.
NextCancel ==
    \/ \E c \in Clients, p \in {Contents, Unmapped} : GetStart(c, p)
    \/ \E c \in Clients : GetInfo(c)
    \/ \E c \in Clients : GetLookup(c)
    \/ \E c \in Clients : GetReadDl(c)
    \/ \E c \in Clients : GetDownload(c)
    \/ \E t \in TaskIds : FetchIssue(t, "any", TRUE)
    \/ \E t \in TaskIds : FetchAnswer(t)
    \/ \E t \in TaskIds : FetchCleanup(t)
    \/ \E p \in Paths : TimerFire(p)
    \/ \E t \in TaskIds, point \in CancelPoints : CtxDone(t, point)

CancelSpec == Init /\ [][NextCancel]_vars

\* The cacher is started with a positive Config.MaxConns on a cached Release.
InitExits == \E n \in 1..MaxConns : StartedWith(ReleaseDirs, n)

\* One client asks for Contents and the driver refreshes the Release and its
\* signature, under every positive Config.MaxConns up to MaxConns; upstream answers
\* ReqPerPath requests per path in any way and the context of any download
\* may end at any point, so that a download leaves by each of its returns.
NextExits ==
    \/ GetStart(1, Contents)
    \/ \E c \in Clients : GetInfo(c)
    \/ \E c \in Clients : GetLookup(c)
    \/ \E c \in Clients : GetReadDl(c)
    \/ \E c \in Clients : GetDownload(c)
    \/ \E t \in TaskIds : Unanswered(t) /\ FetchIssue(t, "any", TRUE)
    \/ \E t \in TaskIds : FetchAnswer(t)
    \/ \E t \in TaskIds : FetchCleanup(t)
    \/ \E p \in Paths : TimerFire(p)
    \/ \E p \in Paths : DriverTick(p)
    \/ \E p \in Paths : DriverGpg(p)
    \/ \E t \in TaskIds, point \in CancelPoints : CtxDone(t, point)

ExitsSpec == InitExits /\ [][NextExits]_vars

\* Every download goroutine that can take a step eventually takes it.
CancelFairness ==
    \A t \in TaskIds :
        WF_vars(FetchIssue(t, "any", TRUE) \/ FetchAnswer(t) \/ FetchCleanup(t))

CancelLiveSpec == CancelSpec /\ CancelFairness

\* ------------------------------------------------------- Get at its boundary
\* Calls of Get for every kind of path, compressed indices among them, up to
\* the point where Get waits for a download; the downloads do not run.
NextBoundary ==
    \/ \E c \in Clients, q \in {Contents, Release, Unmapped} \cup CompressedPaths :
          GetStart(c, q)
    \/ \E c \in Clients : GetInfo(c)
    \/ \E c \in Clients : GetLookup(c)
    \/ \E c \in Clients : GetReadDl(c)
    \/ \E c \in Clients : GetDownload(c)

BoundarySpec == Init /\ [][NextBoundary]_vars

\* ------------------------------------------------------ the cacher's locks
\* The statements of Get, download, maintRelease and the delayed deletion
\* that take a lock, release one, or wait, in the order the code runs them.
\* to names the statements that may follow where the data decides (0: the
\* goroutine returns), and for IfEvent the one that follows when there is an
\* event.
Stmt(op, l, to) == [op |-> op, l |-> l, to |-> to]

\* A Get that gives the read lock on c.info back only when it returns.
GetProgramHoldsInfo ==
    << Stmt("RLock", "fiLock", {2, 4}),
       Stmt("Lock", "mu", {}),
       Stmt("Unlock", "mu", {13, 4}),
       Stmt("RLock", "dlLock", {}),
       Stmt("ReadDl", "", {}),
       Stmt("RUnlock", "dlLock", {13, 7}),
       Stmt("IfEvent", "", {11}),
       Stmt("Lock", "dlLock", {}),
       Stmt("Download", "", {}),
       Stmt("Unlock", "dlLock", {}),
       Stmt("Wait", "", {}),
       Stmt("RUnlock", "fiLock", {1}),
       Stmt("RUnlock", "fiLock", {0}) >>

\* Cacher.Get from RETRY: c.info read under fiLock.RLock; if ok
\* storage.Lookup (under Storage.mu), which returns the file or
\* ErrNotFound; dlChannels and results read under dlLock.RLock; return of a
\* recent status; else <-ch or <-c.Download(p, fi), and goto RETRY.
GetProgram ==
    << Stmt("RLock", "fiLock", {}),
       Stmt("RUnlock", "fiLock", {3, 5}),
       Stmt("Lock", "mu", {}),
       Stmt("Unlock", "mu", {0, 5}),
       Stmt("RLock", "dlLock", {}),
       Stmt("ReadDl", "", {}),
       Stmt("RUnlock", "dlLock", {0, 8}),
       Stmt("IfEvent", "", {12}),
       Stmt("Lock", "dlLock", {}),
       Stmt("Download", "", {}),
       Stmt("Unlock", "dlLock", {}),
       Stmt("Wait", "", {1}) >>

\* Cacher.download: acquireSemaphore; the request and the copy to the
\* tempfile, which end it early on an error, a status other than 200 or
\* bytes that are not valid; under fiLock.Lock storage.Insert (under
\* Storage.mu), the update of c.info and maintMeta; then the deferred
\* function: releaseSemaphore, the in-flight entry deleted and the status
\* recorded under dlLock.Lock, then close(ch) and the start of the delayed
\* deletion.
DownloadProgram ==
    << Stmt("AcquireSem", "", {2, 7}),
       Stmt("Lock", "fiLock", {}),
       Stmt("Lock", "mu", {}),
       Stmt("Unlock", "mu", {}),
       Stmt("MaintMeta", "", {}),
       Stmt("Unlock", "fiLock", {}),
       Stmt("ReleaseSem", "", {}),
       Stmt("Lock", "dlLock", {}),
       Stmt("Cleanup", "", {}),
       Stmt("Unlock", "dlLock", {}),
       Stmt("Close", "", {}) >>

\* Cacher.maintRelease of an InRelease: at a tick Download(p, nil) under
\* dlLock.Lock, then <-ch1.
DriverProgram ==
    << Stmt("Tick", "", {}),
       Stmt("Lock", "dlLock", {}),
       Stmt("Download", "", {}),
       Stmt("Unlock", "dlLock", {}),
       Stmt("Wait", "", {1}) >>

\* The goroutine download's deferred function starts: after cachePeriod,
\* delete(c.results, p) under dlLock.Lock.
TimerProgram ==
    << Stmt("Lock", "dlLock", {}),
       Stmt("Unlock", "dlLock", {}) >>

Program(q) ==
    CASE q[1] = "get" -> GetProgram
      [] q[1] = "driver" -> DriverProgram
      [] q[1] = "download" -> DownloadProgram
      [] OTHER -> TimerProgram

\* The statement goroutine q is at.
At(q) == Program(q)[lk.pc[q]]

\* The statement after it; 0 once the last has run.
After(q) == IF lk.pc[q] = Len(Program(q)) THEN 0 ELSE lk.pc[q] + 1

\* The locks q holds.
Held(q) == {l \in Locks : q \in lk.rd[l] \/ lk.wr[l] = q}

\* The lock q asks for, if it is at a Lock or an RLock.
Wants(q) ==
    IF lk.pc[q] # 0 /\ At(q).op \in {"Lock", "RLock"} THEN {At(q).l} ELSE {}

\* q is about to call Download: it has found no event, or got its tick,
\* and has not yet called it.
InRound(q) ==
    /\ q[1] \in {"get", "driver"}
    /\ lk.pc[q] # 0
    /\ \E i \in lk.pc[q]..Len(Program(q)) :
          /\ Program(q)[i].op = "Download"
          /\ \A j \in lk.pc[q]..i : Program(q)[j].op \notin {"IfEvent", "Tick"}

\* Another Download may be called: fewer than MaxFetches downloads were or
\* may yet be started.  A goroutine that would call one more is followed no
\* further.
Budget == lk.started + Cardinality({q \in LockProcs : InRound(q)}) < MaxFetches

\* sync.RWMutex and sync.Mutex: a writer needs the lock free; a reader needs
\* no writer, holding or waiting.
CanLock(l) == lk.wr[l] = <<>> /\ lk.rd[l] = {}
CanRLock(l) == lk.wr[l] = <<>> /\ lk.wq[l] = {}

\* q's statement can run now.
Runnable(q) ==
    /\ lk.pc[q] # 0
    /\ CASE At(q).op = "Lock" -> CanLock(At(q).l)
         [] At(q).op = "RLock" -> CanRLock(At(q).l)
         [] At(q).op = "AcquireSem" -> lk.sem > 0
         [] At(q).op = "Wait" -> lk.ev[q] \in lk.closed
         [] OTHER -> TRUE

\* A call of Get for path p begins.
LockGet(q, p) ==
    /\ q[1] = "get"
    /\ lk.pc[q] = 0
    /\ lk' = [lk EXCEPT !.pc[q] = 1, !.path[q] = p, !.ev[q] = 0]
    /\ UNCHANGED nonLockVars

\* Lock was called on a lock that is not free: q waits, and readers that
\* come after it wait behind it.
LockQueue(q) ==
    /\ lk.pc[q] # 0
    /\ At(q).op = "Lock"
    /\ ~CanLock(At(q).l)
    /\ q \notin lk.wq[At(q).l]
    /\ lk' = [lk EXCEPT !.wq[At(q).l] = @ \cup {q}]
    /\ UNCHANGED nonLockVars

\* Download under dlLock: the event of the entry there is, or a new entry
\* and its download goroutine.
Downloaded(q) ==
    LET p == lk.path[q]
        g == lk.started + 1
    IN IF lk.inflight[p] # 0
       THEN [lk EXCEPT !.ev[q] = lk.inflight[p], !.pc[q] = After(q)]
       ELSE [lk EXCEPT !.ev[q] = g, !.pc[q] = After(q),
                       !.inflight[p] = g, !.started = g,
                       !.pc[<<"download", g>>] = 1,
                       !.path[<<"download", g>>] = p,
                       !.ev[<<"download", g>>] = g]

\* maintMeta, called the first time a Release or InRelease is downloaded.
Maintained(q) ==
    IF lk.path[q] = "InRelease" /\ ~lk.driven
    THEN [lk EXCEPT !.pc[q] = After(q), !.driven = TRUE,
                    !.pc[<<"driver", 1>>] = 1]
    ELSE [lk EXCEPT !.pc[q] = After(q)]

\* What a goroutine that has returned leaves behind is forgotten.
Forgotten(l) ==
    [l EXCEPT !.path = [q \in LockProcs |->
                           IF l.pc[q] = 0 THEN "InRelease" ELSE l.path[q]],
              !.ev = [q \in LockProcs |-> IF l.pc[q] = 0 THEN 0 ELSE l.ev[q]]]

\* The statements that may follow q's: the next, or what the data decides.
Succ(q) == IF At(q).to = {} THEN {After(q)} ELSE At(q).to

\* Goroutine q runs its statement and goes on at nx.
LockStep(q) ==
    /\ Runnable(q)
    /\ \E nx \in Succ(q) :
       LET o == At(q)
       IN lk' = Forgotten(
          CASE o.op = "RLock" ->
                 [lk EXCEPT !.rd[o.l] = @ \cup {q}, !.pc[q] = nx]
            [] o.op = "RUnlock" ->
                 [lk EXCEPT !.rd[o.l] = @ \ {q}, !.pc[q] = nx]
            [] o.op = "Lock" ->
                 [lk EXCEPT !.wr[o.l] = q, !.wq[o.l] = @ \ {q}, !.pc[q] = nx]
            [] o.op = "Unlock" ->
                 [lk EXCEPT !.wr[o.l] = <<>>, !.pc[q] = nx]
            [] o.op = "ReadDl" ->
                 [lk EXCEPT !.ev[q] = lk.inflight[lk.path[q]], !.pc[q] = nx]
            [] o.op = "IfEvent" ->
                 [lk EXCEPT !.pc[q] = IF lk.ev[q] # 0 THEN nx
                                      ELSE IF Budget THEN After(q) ELSE 0]
            [] o.op = "Download" -> Downloaded(q)
            [] o.op = "Tick" ->
                 [lk EXCEPT !.pc[q] = IF Budget THEN nx ELSE 0]
            [] o.op = "AcquireSem" ->
                 [lk EXCEPT !.sem = @ - 1, !.pc[q] = nx]
            [] o.op = "ReleaseSem" ->
                 [lk EXCEPT !.sem = @ + 1, !.pc[q] = nx]
            [] o.op = "MaintMeta" -> Maintained(q)
            [] o.op = "Cleanup" ->
                 [lk EXCEPT !.inflight[lk.path[q]] = 0, !.pc[q] = nx]
            [] o.op = "Close" ->
                 [lk EXCEPT !.closed = @ \cup {q[2]}, !.pc[q] = nx,
                            !.pc[<<"timer", q[2]>>] = 1]
            [] OTHER -> [lk EXCEPT !.pc[q] = nx])
    /\ UNCHANGED nonLockVars

InitLocks ==
    /\ CacherStarted(EmptyDirs, MaxConns)
    /\ StorageUnused /\ MirrorUnused /\ FetchUnused
    /\ cmp = NoCmp
    /\ lk = NoLocks /\ ru = NoReuse /\ prs = NoParse

NextLocks ==
    \/ \E q \in LockProcs, p \in LockPaths : LockGet(q, p)
    \/ \E q \in LockProcs : LockQueue(q)
    \/ \E q \in LockProcs : LockStep(q)

LocksSpec == InitLocks /\ [][NextLocks]_vars

\* ----------------------------------------------------------- FileInfo.Same
\* The records Same is called with: two paths, the sizes of the two bodies,
\* and per kind no digest or that of one of the two bodies.
SameRecords ==
    [path : {Contents, Release},
     size : {SizeOf(ContentsBody(1)), SizeOf(ContentsBody(2))},
     md5sum : {NoSum, MD5Of(ContentsBody(1)), MD5Of(ContentsBody(2))},
     sha1sum : {NoSum, SHA1Of(ContentsBody(1)), SHA1Of(ContentsBody(2))},
     sha256sum : {NoSum, SHA256Of(ContentsBody(1)), SHA256Of(ContentsBody(2))}]

InitSame ==
    /\ CacherStarted(EmptyDirs, MaxConns)
    /\ StorageUnused /\ MirrorUnused /\ FetchUnused
    /\ \E fi \in SameRecords, t \in SameRecords :
          cmp = [fi |-> fi, t |-> t, called |-> FALSE, ret |-> FALSE]
    /\ lk = NoLocks /\ ru = NoReuse /\ prs = NoParse

\* fi.Same(t) is called and returns.
CallSame ==
    /\ ~cmp.called
    /\ cmp' = [cmp EXCEPT !.called = TRUE, !.ret = Same(cmp.fi, cmp.t)]
    /\ UNCHANGED nonCmpVars

NextSame == CallSame

SameSpec == InitSame /\ [][NextSame]_vars

\* ------------------------------------------------- go-apt-mirror downloads
\* One call of downloadRelease (kind "release"), downloadIndices ("index") or
\* downloadItems ("item") for the files fconf.files, none of which the current
\* tree holds: the loop that takes a token of m.semaphore and starts a
\* download goroutine per file, the goroutines, and the loop that receives
\* their results.
FetchFiles == {"f1", "f2"}

\* download is called with the record the Release or an index lists, except
\* for the Release files themselves.
Known(conf) == conf.kind # "release"

\* An allowMissing that every caller passes as true.
AllowMissingAlways(conf) == TRUE

\* handleResult's allowMissing: downloadIndices passes true, downloadItems
\* false.
AllowMissing(conf) == conf.kind = "index"

\* The calls there are: downloadRelease and downloadItems pass byhash = false.
FetchConfs(files, conns) ==
    { c \in [kind : {"release", "index", "item"}, byhash : BOOLEAN,
             maxConns : conns, files : {files}] : c.byhash => c.kind = "index" }

\* client.Do returned an error.
NetError == 0

\* What upstream answers to one request: no response, or a status.
UpAnswers == {NetError, StatusOK, StatusForbidden, StatusNotFound,
              StatusInternalServerError}

\* What comes of a 200 response: the bytes of the record, other bytes, an
\* error while the body is read, or a failing TempFile, Sync, Chmod or Seek.
UpBodies == {"good", "bad", "readerr", "syserr"}

\* Targets that begin with the weakest digest's alias.
TargetsMD5First(conf) ==
    IF conf.byhash /\ Known(conf)
    THEN <<"md5", "sha1", "sha256", "path">>
    ELSE <<"path">>

\* download, targets: the path, then its by-hash aliases.
Targets(conf) ==
    IF conf.byhash /\ Known(conf)
    THEN <<"path", "sha256", "sha1", "md5">>
    ELSE <<"path">>

\* A download goroutine that has just been started.  slept, asked and bad
\* record what it has done: the seconds of each time.Sleep, the target of
\* each request, the 200 responses whose bytes were not those of the record.
NewDownload(conf) ==
    [pc |-> "retry", retries |-> 0, targets |-> Targets(conf), status |-> 0,
     err |-> "nil", fi |-> FALSE, slept |-> <<>>, asked |-> <<>>, bad |-> 0]

\* A backoff that grows by one second per retry.
BackoffLinear(retries) == retries

\* download: time.Duration(1<<(retries-1)) * time.Second.
Backoff(retries) == 2 ^ (retries - 1)

\* download returns: its deferred function sends the result and puts the
\* token back.
Returned(d, err) == [d EXCEPT !.pc = "sent", !.err = err]

\* download: retries++; goto RETRY if retries are left, else the error.
RetryOr(d, err) ==
    IF d.retries < httpRetries
    THEN [d EXCEPT !.retries = @ + 1, !.pc = "retry"]
    ELSE Returned(d, err)

\* The tokens after download d has become d2.
TokensAfter(d2) == IF d2.pc = "sent" THEN fsem + 1 ELSE fsem

\* downloadRelease, reuseOrDownload: a token is taken and the goroutine of
\* file f started.
FetchAcquire(f) ==
    /\ frun.pc = "running"
    /\ f \in frun.todo
    /\ fsem > 0
    /\ fsem' = fsem - 1
    /\ frun' = [frun EXCEPT !.todo = @ \ {f}]
    /\ dl' = MapPut(dl, f, NewDownload(fconf))
    /\ UNCHANGED <<fconf, nonFetchVars>>

\* downloadRelease, reuseOrDownload: the context is done while a file waits
\* for a token.
FetchAbort ==
    /\ frun.pc = "running"
    /\ frun.todo # {}
    /\ frun.cancelled
    /\ frun' = [frun EXCEPT !.pc = "failed", !.err = "ctx"]
    /\ UNCHANGED <<fconf, fsem, dl, nonFetchVars>>

\* The context of the run is cancelled.
FetchCancel ==
    /\ frun.pc = "running"
    /\ ~frun.cancelled
    /\ frun' = [frun EXCEPT !.cancelled = TRUE]
    /\ UNCHANGED <<fconf, fsem, dl, nonFetchVars>>

\* download at RETRY: return ctx.Err() if the context is done; else sleep
\* if this is a retry, and send the request for targets[0].
DlRetry(f) ==
    /\ f \in DOMAIN dl
    /\ dl[f].pc = "retry"
    /\ LET d == dl[f]
           d2 == IF frun.cancelled
                 THEN Returned(d, "ctx")
                 ELSE [d EXCEPT !.pc = "request",
                                !.slept = IF d.retries > 0
                                          THEN Append(@, Backoff(d.retries))
                                          ELSE @,
                                !.asked = Append(@, Head(d.targets))]
       IN /\ dl' = [dl EXCEPT ![f] = d2]
          /\ fsem' = TokensAfter(d2)
    /\ UNCHANGED <<fconf, frun, nonFetchVars>>

\* download after client.Do: an error or a 5xx status is retried while
\* retries are left; any other status but 200 is the result.
DlResponse(f, ans) ==
    /\ f \in DOMAIN dl
    /\ dl[f].pc = "request"
    /\ LET d == dl[f]
           d1 == [d EXCEPT !.status = ans]
           d2 == IF ans = NetError THEN RetryOr(d, "transport")
                 ELSE IF ans >= 500 /\ d.retries < httpRetries
                 THEN [d1 EXCEPT !.retries = @ + 1, !.pc = "retry"]
                 ELSE IF ans # StatusOK THEN Returned(d1, "nil")
                 ELSE [d1 EXCEPT !.pc = "body"]
       IN /\ dl' = [dl EXCEPT ![f] = d2]
          /\ fsem' = TokensAfter(d2)
    /\ UNCHANGED <<fconf, frun, nonFetchVars>>

\* download after a 200: the body is copied to a tempfile; a read error is
\* retried while retries are left; bytes that are not those of the record
\* make it try the next target, "invalid checksum" when none is left.
DlBody(f, body) ==
    /\ f \in DOMAIN dl
    /\ dl[f].pc = "body"
    /\ LET d == dl[f]
           d2 == IF body = "syserr" THEN Returned(d, "sys")
                 ELSE IF body = "readerr" THEN RetryOr(d, "read")
                 ELSE IF body = "bad" /\ Known(fconf)
                 THEN IF Len(d.targets) > 1
                      THEN [d EXCEPT !.targets = Tail(@), !.pc = "retry",
                                     !.bad = @ + 1]
                      ELSE [Returned(d, "checksum") EXCEPT !.bad = @ + 1]
                 ELSE [Returned(d, "nil") EXCEPT !.fi = TRUE]
       IN /\ dl' = [dl EXCEPT ![f] = d2]
          /\ fsem' = TokensAfter(d2)
    /\ UNCHANGED <<fconf, frun, nonFetchVars>>

\* handleReleaseResults and handleResult on the result d: "failed", "skipped"
\* or "stored".
Handled(conf, d) ==
    IF d.err # "nil" THEN "failed"
    ELSE IF conf.kind = "release" /\ 400 <= d.status /\ d.status < 500
    THEN "skipped"
    ELSE IF AllowMissing(conf) /\ d.status = StatusNotFound THEN "skipped"
    ELSE IF d.status # StatusOK THEN "failed"
    ELSE "stored"

\* downloadRelease, recvResult: a result is received and handled.
\* downloadRelease starts every download before it receives; recvResult of
\* downloadFiles runs beside reuseOrDownload, and its error cancels the
\* environment of the downloads.
HandleResult(f) ==
    /\ frun.pc = "running"
    /\ f \in DOMAIN dl
    /\ dl[f].pc = "sent"
    /\ f \notin frun.handled
    /\ fconf.kind = "release" => frun.todo = {}
    /\ LET h == Handled(fconf, dl[f])
       IN frun' = [frun EXCEPT
              !.handled = @ \cup {f},
              !.stored = IF h = "stored" THEN @ \cup {f} ELSE @,
              !.pc = IF h = "failed" THEN "failed" ELSE @,
              !.err = IF h = "failed" THEN "download" ELSE @,
              !.cancelled = @ \/ (h = "failed" /\ fconf.kind # "release")]
    /\ UNCHANGED <<fconf, fsem, dl, nonFetchVars>>

\* downloadRelease, downloadFiles return without error.
FetchReturn ==
    /\ frun.pc = "running"
    /\ frun.todo = {}
    /\ frun.handled = fconf.files
    /\ frun' = [frun EXCEPT !.pc = "done"]
    /\ UNCHANGED <<fconf, fsem, dl, nonFetchVars>>

\* NewMirror has filled the semaphore with c.MaxConns tokens.
FetchStarted(conf) ==
    /\ fconf = conf
    /\ fsem = conf.maxConns
    /\ dl = EmptyMap
    /\ frun = [NoFetch EXCEPT !.pc = "running", !.todo = conf.files]

\* One download, with everything upstream can answer.
InitDownload ==
    /\ CacherStarted(EmptyDirs, MaxConns) /\ StorageUnused /\ MirrorUnused
    /\ cmp = NoCmp /\ lk = NoLocks /\ ru = NoReuse /\ prs = NoParse
    /\ \E conf \in FetchConfs({"f1"}, {1}) : FetchStarted(conf)

NextDownload ==
    \/ \E f \in FetchFiles : FetchAcquire(f)
    \/ FetchAbort
    \/ FetchCancel
    \/ \E f \in FetchFiles : DlRetry(f)
    \/ \E f \in FetchFiles, ans \in UpAnswers : DlResponse(f, ans)
    \/ \E f \in FetchFiles, body \in UpBodies : DlBody(f, body)
    \/ \E f \in FetchFiles : HandleResult(f)
    \/ FetchReturn

DownloadSpec == InitDownload /\ [][NextDownload]_vars

\* Two files fetched side by side under every max_conns up to MaxConns, zero
\* among them; upstream answers 200, 404 or 500 and the bytes are those of
\* the record or others.
InitFetch ==
    /\ CacherStarted(EmptyDirs, MaxConns) /\ StorageUnused /\ MirrorUnused
    /\ cmp = NoCmp /\ lk = NoLocks /\ ru = NoReuse /\ prs = NoParse
    /\ \E conf \in FetchConfs(FetchFiles, 0..MaxConns) :
          conf.kind # "index" /\ FetchStarted(conf)

NextFetch ==
    \/ \E f \in FetchFiles : FetchAcquire(f)
    \/ FetchAbort
    \/ FetchCancel
    \/ \E f \in FetchFiles : DlRetry(f)
    \/ \E f \in FetchFiles,
          ans \in {StatusOK, StatusNotFound, StatusInternalServerError} :
          DlResponse(f, ans)
    \/ \E f \in FetchFiles, body \in {"good", "bad"} : DlBody(f, body)
    \/ \E f \in FetchFiles : HandleResult(f)
    \/ FetchReturn

FetchSpec == InitFetch /\ [][NextFetch]_vars

\* downloadFiles to its return.  frun.rod is where reuseOrDownload is: in
\* its loop, in its deferred function at env.Wait(), past close(results), or
\* returned with recvResult so that downloadFiles returns; frun.closed counts
\* the calls of close(results).

\* reuseOrDownload leaves its loop: every file was looked at, or its context
\* is done because recvResult returned an error or the run was cancelled.
LoopEnds ==
    /\ frun.rod = "loop"
    /\ \/ frun.pc = "failed"
       \/ frun.pc = "running" /\ frun.todo = {}
    /\ frun' = [frun EXCEPT !.rod = "wait"]
    /\ UNCHANGED <<fconf, fsem, dl, nonFetchVars>>

\* reuseOrDownload, the deferred function: env.Wait() returns once every
\* download goroutine has returned, then close(results).
ResultsClose ==
    /\ frun.rod = "wait"
    /\ \A f \in DOMAIN dl : dl[f].pc = "sent"
    /\ frun' = [frun EXCEPT !.rod = "closed", !.closed = @ + 1]
    /\ UNCHANGED <<fconf, fsem, dl, nonFetchVars>>

\* downloadFiles: env.Wait() returns once reuseOrDownload has returned and
\* recvResult has, with an error or at the end of the closed channel.
FilesReturn ==
    /\ frun.rod = "closed"
    /\ frun.pc = "failed" \/ frun.handled = DOMAIN dl
    /\ frun' = [frun EXCEPT !.rod = "returned"]
    /\ UNCHANGED <<fconf, fsem, dl, nonFetchVars>>

\* A step of downloadFiles or of one of its goroutines.
FilesStep ==
    \/ \E f \in FetchFiles : FetchAcquire(f)
    \/ FetchAbort
    \/ \E f \in FetchFiles : DlRetry(f)
    \/ \E f \in FetchFiles,
          ans \in {StatusOK, StatusNotFound, StatusInternalServerError} :
          DlResponse(f, ans)
    \/ \E f \in FetchFiles, body \in {"good", "bad"} : DlBody(f, body)
    \/ \E f \in FetchFiles : HandleResult(f)
    \/ LoopEnds
    \/ ResultsClose
    \/ FilesReturn

\* downloadFiles for indices or items, two files, under every max_conns up
\* to MaxConns, zero among them.
InitFiles == InitFetch

NextFiles ==
    \/ FilesStep
    \/ FetchCancel

FilesSpec == InitFiles /\ [][NextFiles]_vars

\* ------------------------------------------------------ the control parser
\* A line of a control file, as Read tells lines apart: empty, a comment, the
\* PGP markers, a continuation, a field "k: v" (v empty or not), or none of
\* these.
Line(kind, k, v) == [kind |-> kind, k |-> k, v |-> v]

BlankLine == Line("blank", "", "")

FieldLines == {Line("field", "A", "1"), Line("field", "B", "2"), Line("field", "A", "")}

Lines == {BlankLine, Line("comment", "", ""), Line("pgpbegin", "", ""),
          Line("pgpsig", "", ""), Line("cont", "", "3"), Line("bad", "", "")}
         \cup FieldLines

\* The inputs a Parser is made on: every file of at most MaxLines lines.
RECURSIVE Files(_)
Files(n) ==
    IF n = 0 THEN {<<>>}
    ELSE LET shorter == Files(n - 1)
         IN shorter \cup {Append(f, l) : f \in shorter, l \in Lines}

\* ret[k] = append(ret[k], v)
AppendField(ret, k, v) ==
    MapPut(ret, k, Append(IF k \in DOMAIN ret THEN ret[k] ELSE <<>>, v))

\* Read at the PGP preamble: lines are dropped up to and with the next empty
\* one.
RECURSIVE SkipPreamble(_)
SkipPreamble(rest) ==
    IF rest = <<>> THEN rest
    ELSE IF Head(rest).kind = "blank" THEN Tail(rest)
    ELSE SkipPreamble(Tail(rest))

\* Read, the loop over p.s.Scan(): st holds the lines left, ret, p.lastField,
\* p.isPGP and the error of an invalid line.
RECURSIVE Scan(_)
Scan(st) ==
    IF st.rest = <<>> THEN st
    ELSE LET l == Head(st.rest)
             r == [st EXCEPT !.rest = Tail(st.rest)]
         IN CASE l.kind = "blank" -> r
              [] l.kind = "comment" -> Scan(r)
              [] l.kind = "pgpbegin" ->
                    Scan([r EXCEPT !.rest = SkipPreamble(@), !.isPGP = TRUE])
              [] l.kind = "pgpsig" /\ st.isPGP -> [r EXCEPT !.rest = <<>>]
              [] l.kind = "cont" ->
                    IF st.lastField = ""
                    THEN [r EXCEPT !.err = "invalid"]
                    ELSE Scan([r EXCEPT !.ret = AppendField(@, st.lastField, l.v)])
              [] l.kind = "field" ->
                    Scan([r EXCEPT !.lastField = l.k,
                                   !.ret = IF l.v = "" THEN @ ELSE AppendField(@, l.k, l.v)])
              [] OTHER -> [r EXCEPT !.err = "invalid"]

\* A Parser made on the file f by NewParser.
NewParser(f) ==
    [pc |-> "open", input |-> f, rest |-> f, lastField |-> "", isPGP |-> FALSE,
     err |-> "nil", out |-> <<>>, reads |-> 0]

\* Parser.Read: the sticky error if there is one; else the loop, after which
\* p.lastField is reset and a paragraph without fields is io.EOF.
Read ==
    /\ prs.pc = "open"
    /\ prs.reads < Len(prs.input) + 2
    /\ IF prs.err # "nil"
       THEN prs' = [prs EXCEPT !.reads = @ + 1]
       ELSE LET st == Scan([rest |-> prs.rest, ret |-> EmptyMap,
                            lastField |-> prs.lastField, isPGP |-> prs.isPGP,
                            err |-> "nil"])
                err == IF st.err # "nil" THEN st.err
                       ELSE IF st.ret = EmptyMap THEN "EOF" ELSE "nil"
            IN prs' = [prs EXCEPT !.reads = @ + 1,
                                  !.rest = st.rest,
                                  !.lastField = IF st.err # "nil" THEN st.lastField ELSE "",
                                  !.isPGP = st.isPGP,
                                  !.err = err,
                                  !.out = IF err = "nil" THEN Append(@, st.ret) ELSE @]
    /\ UNCHANGED nonParseVars

InitParse ==
    /\ CacherStarted(EmptyDirs, MaxConns)
    /\ StorageUnused /\ MirrorUnused /\ FetchUnused
    /\ cmp = NoCmp /\ lk = NoLocks /\ ru = NoReuse
    /\ \E f \in Files(MaxLines) : prs = NewParser(f)

NextParse == Read

ParseSpec == InitParse /\ [][NextParse]_vars

\* ------------------------------------------------------------ go-apt-mirror
\* One mirror <id> with one suite.  A stamped directory <root>/.<id>.<stamp>
\* is a tree [files, json, saved, index, auth]: the paths stored under
\* <stamp dir>/<id>, the paths info.json lists, whether info.json was written,
\* the items the stored Packages index lists, and the items the run that built
\* the tree was authorised to mirror (its itemMap).  mroot.link and mroot.tmp
\* are the stamps the symlinks <root>/<id> and <root>/<id>.tmp resolve into
\* (0: no such symlink); mroot.now is the stamp of the latest run.
MirrorItems == {"a", "b"}

NewTree == [files |-> {}, json |-> {}, saved |-> FALSE, index |-> {}, auth |-> {}]

\* The release files of the suite that downloadRelease asks for.
ReleaseFiles == {"Release", "InRelease"}

\* What a download ends with, its retries and targets spent: an error, or
\* the status of the last response.
MirrorAnswers == UpAnswers

\* The result download sends for the last answer ans.
Final(ans) ==
    [err |-> IF ans = NetError THEN "transport" ELSE "nil", status |-> ans]

\* What a system call returns.
SysResults == {"ok", "err"}

\* The result download reports: ctx.Err() once the context is cancelled.
Fetched(r, res) == IF r.cancelled THEN Final(NetError) ELSE Final(res)

\* The result res has been handled as one of kind.
Seen(r, kind, res) == [r EXCEPT !.last = <<kind, Fetched(r, res).status>>]

\* Update returns an error from the step at.
Failed(r, at) == [r EXCEPT !.pc = "failed", !.failedAt = at]

\* Storage.StoreLink of q into the tree being built: s.info[q] = fi, os.Link.
StoreLink(d, r, q) == [d EXCEPT !.trees[r.stamp].files = @ \cup {q}]

\* Run, updateMirrors, NewMirror: the symlink is resolved and the current
\* tree's info.json loaded, the stamped directory is made, Update starts.
\* During the run upstream publishes release files that list a Packages
\* index with the items auth.
MirrorRun(auth) ==
    /\ mrun.pc = "idle"
    /\ mroot.now < MaxRuns
    /\ LET stamp == mroot.now + 1
       IN /\ mroot' = [mroot EXCEPT !.now = stamp,
                                    !.trees = MapPut(@, stamp, NewTree)]
          /\ mrun' = [NoRun EXCEPT !.pc = "release", !.stamp = stamp,
                                   !.current = mroot.link,
                                   !.curInfo = IF mroot.link = 0 THEN {}
                                               ELSE mroot.trees[mroot.link].json,
                                   !.auth = auth,
                                   !.relLeft = ReleaseFiles]
    /\ UNCHANGED nonMirrorVars

\* The context of the run is cancelled (a signal).
MirrorCancel ==
    /\ mrun.pc \notin {"idle"}
    /\ ~mrun.cancelled
    /\ mrun' = [mrun EXCEPT !.cancelled = TRUE]
    /\ UNCHANGED <<mroot, nonMirrorVars>>

\* updateSuite, downloadRelease and handleReleaseResults: the result for the
\* release file p is handled; a 4xx is passed over, a 200 is stored, anything
\* else ends the run.  After the last one updateSuite returns "found no
\* Release/InRelease" if none was stored.
DownloadRelease(p, res) ==
    /\ mrun.pc = "release"
    /\ p \in mrun.relLeft
    /\ LET h == Handled([kind |-> "release"], Fetched(mrun, res))
           r == [Seen(mrun, "release", res) EXCEPT !.relLeft = @ \ {p}]
           d == IF h = "stored" THEN StoreLink(mroot, mrun, p) ELSE mroot
       IN IF h = "failed"
          THEN /\ mrun' = Failed(r, "release")
               /\ UNCHANGED mroot
          ELSE /\ mroot' = d
               /\ mrun' = IF r.relLeft # {} THEN r
                          ELSE IF ReleaseFiles \cap d.trees[mrun.stamp].files = {}
                          THEN Failed(r, "norelease")
                          ELSE [r EXCEPT !.pc = "indices"]
    /\ UNCHANGED nonMirrorVars

\* The Packages index of the current tree can be reused: the record the
\* Release lists is Same as the one info.json of the current tree holds.
IndexReusable(d, r) ==
    /\ r.current # 0
    /\ "Packages" \in r.curInfo
    /\ d.trees[r.current].index = r.auth

\* The Packages index is stored in the tree being built, and extractItems
\* makes its items the itemMap of the run.
IndexStored(d, r) ==
    [StoreLink(d, r, "Packages") EXCEPT !.trees[r.stamp].index = r.auth,
                                        !.trees[r.stamp].auth = r.auth]

\* updateSuite, downloadIndices and extractItems: the index is linked from
\* the current tree or downloaded; handleResult with allowMissing = true
\* passes over a 404, which leaves the itemMap empty.
DownloadIndices(res) ==
    /\ mrun.pc = "indices"
    /\ LET h == IF IndexReusable(mroot, mrun) THEN "stored"
                ELSE Handled([kind |-> "index"], Fetched(mrun, res))
           r == IF IndexReusable(mroot, mrun) THEN mrun
                ELSE Seen(mrun, "index", res)
       IN IF h = "stored"
          THEN /\ mroot' = IndexStored(mroot, mrun)
               /\ mrun' = [r EXCEPT !.pc = "items", !.left = mrun.auth]
          ELSE IF h = "skipped"
          THEN /\ mrun' = [r EXCEPT !.pc = "items", !.left = {}]
               /\ UNCHANGED mroot
          ELSE /\ mrun' = Failed(r, "indices")
               /\ UNCHANGED mroot
    /\ UNCHANGED nonMirrorVars

\* reuseOrDownload: m.current.Lookup finds the item's record.
ItemReusable(r, i) == r.current # 0 /\ i \in r.curInfo

\* downloadItems, reuseOrDownload: item i is linked from the current tree by
\* m.storeLink, whose error ends the run.
ReuseItem(i, res) ==
    /\ mrun.pc = "items"
    /\ i \in mrun.left
    /\ ItemReusable(mrun, i)
    /\ IF res = "ok" /\ i \in mroot.trees[mrun.current].files
       THEN /\ mroot' = StoreLink(mroot, mrun, i)
            /\ mrun' = [mrun EXCEPT !.left = @ \ {i}]
       ELSE /\ mrun' = Failed(mrun, "storeLink")
            /\ UNCHANGED mroot
    /\ UNCHANGED nonMirrorVars

\* downloadItems, download and handleResult with allowMissing = false: the
\* result for item i is handled; a 200 is stored, anything else ends the run.
DownloadItem(i, res) ==
    /\ mrun.pc = "items"
    /\ i \in mrun.left
    /\ ~ItemReusable(mrun, i)
    /\ LET h == Handled([kind |-> "item"], Fetched(mrun, res))
           r == [Seen(mrun, "item", res) EXCEPT !.left = @ \ {i}]
       IN IF h = "failed"
          THEN /\ mrun' = Failed(r, "items")
               /\ UNCHANGED mroot
          ELSE /\ mroot' = IF h = "stored" THEN StoreLink(mroot, mrun, i) ELSE mroot
               /\ mrun' = r
    /\ UNCHANGED nonMirrorVars

\* Update after downloadItems has returned: m.storage.Save() writes info.json.
Save(res) ==
    /\ mrun.pc = "items"
    /\ mrun.left = {}
    /\ IF res = "ok"
       THEN /\ mroot' = [mroot EXCEPT !.trees[mrun.stamp].json = mroot.trees[mrun.stamp].files,
                                      !.trees[mrun.stamp].saved = TRUE]
            /\ mrun' = [mrun EXCEPT !.pc = "symlink"]
       ELSE /\ mrun' = Failed(mrun, "save")
            /\ UNCHANGED mroot
    /\ UNCHANGED nonMirrorVars

\* replaceLink: os.Remove(tname), whose error is ignored, then
\* os.Symlink(<new tree>, tname), which fails if tname is still there.
ReplaceLinkSymlink(removed, res) ==
    /\ mrun.pc = "symlink"
    /\ LET tmp == IF removed THEN 0 ELSE mroot.tmp
       IN IF res = "ok" /\ tmp = 0
          THEN /\ mroot' = [mroot EXCEPT !.tmp = mrun.stamp]
               /\ mrun' = [mrun EXCEPT !.pc = "dirsync"]
          ELSE /\ mroot' = [mroot EXCEPT !.tmp = tmp]
               /\ mrun' = Failed(mrun, "symlink")
    /\ UNCHANGED nonMirrorVars

\* replaceLink: the first DirSync(m.dir).
ReplaceLinkDirSync(res) ==
    /\ mrun.pc = "dirsync"
    /\ mrun' = IF res = "ok" THEN [mrun EXCEPT !.pc = "rename"]
               ELSE Failed(mrun, "dirsync")
    /\ UNCHANGED <<mroot, nonMirrorVars>>

\* replaceLink: os.Rename(tname, <root>/<id>).
ReplaceLinkRename(res) ==
    /\ mrun.pc = "rename"
    /\ IF res = "ok"
       THEN /\ mroot' = [mroot EXCEPT !.link = mroot.tmp, !.tmp = 0]
            /\ mrun' = [mrun EXCEPT !.pc = "renamed"]
       ELSE /\ mrun' = Failed(mrun, "rename")
            /\ UNCHANGED mroot
    /\ UNCHANGED nonMirrorVars

\* replaceLink: return DirSync(m.dir), and Update returns what it returns.
ReplaceLinkReturn(res) ==
    /\ mrun.pc = "renamed"
    /\ mrun' = IF res = "ok" THEN [mrun EXCEPT !.pc = "done"]
               ELSE Failed(mrun, "renamed")
    /\ UNCHANGED <<mroot, nonMirrorVars>>

\* A gc that marks the names of the symlinks only, not what they point to.
GcUsingNamesOnly(d) == {}

\* gc, the stamped directories marked as used: those a symlink of the root
\* resolves into.
GcUsing(d) == {d.link, d.tmp} \ {0}

\* gc: os.RemoveAll of a stamped directory that no symlink resolves into,
\* unless the context is done.
GcRemove(t) ==
    /\ mrun.pc \in {"done", "failed"}
    /\ ~mrun.cancelled
    /\ t \in DOMAIN mroot.trees \ GcUsing(mroot)
    /\ mroot' = [mroot EXCEPT !.trees = MapDelete(@, t)]
    /\ UNCHANGED <<mrun, nonMirrorVars>>

\* gc returns, nil or ctx.Err(), and Run with it: the lock is released.
GcReturn ==
    /\ mrun.pc \in {"done", "failed"}
    /\ mrun.cancelled \/ DOMAIN mroot.trees \subseteq GcUsing(mroot)
    /\ mrun' = NoRun
    /\ UNCHANGED <<mroot, nonMirrorVars>>

InitMirror == Started(EmptyDirs)

NextMirror ==
    \/ \E auth \in SUBSET MirrorItems : MirrorRun(auth)
    \/ MirrorCancel
    \/ \E p \in ReleaseFiles, res \in MirrorAnswers : DownloadRelease(p, res)
    \/ \E res \in MirrorAnswers : DownloadIndices(res)
    \/ \E i \in MirrorItems, res \in SysResults : ReuseItem(i, res)
    \/ \E i \in MirrorItems, res \in MirrorAnswers : DownloadItem(i, res)
    \/ \E res \in SysResults : Save(res)
    \/ \E removed \in BOOLEAN, res \in SysResults : ReplaceLinkSymlink(removed, res)
    \/ \E res \in SysResults : ReplaceLinkDirSync(res)
    \/ \E res \in SysResults : ReplaceLinkRename(res)
    \/ \E res \in SysResults : ReplaceLinkReturn(res)
    \/ \E t \in 1..MaxRuns : GcRemove(t)
    \/ GcReturn

MirrorSpec == InitMirror /\ [][NextMirror]_vars

\* --------------------------------------------- reuseOrDownload over records
\* One mirror whose runs obtain the files ReuseFiles.  ru.cur is the info of
\* m.current (loaded from the info.json of the published tree, ru.has: there
\* is one), ru.info the info of m.storage, the tree being built; both map
\* keys to records, a key being the path of a file or one of its by-hash
\* aliases.  ru.todo holds what is left of fil, each file as <<path, version,
\* full>>: the record the Release or the index lists for the bytes of that
\* version, with every digest or with the MD5 only.
ReuseFiles == {"a", "b"}

\* The record the index lists for t.
Expected(t) ==
    LET fi == MakeFileInfo(t[1], ContentsBody(t[2]))
    IN IF t[3] THEN fi ELSE [fi EXCEPT !.sha1sum = NoSum, !.sha256sum = NoSum]

\* The key of the path of fi, and of its by-hash aliases.
PathKey(fi) == <<"path", fi.path>>
MD5SumPath(fi) == <<"MD5Sum", fi.md5sum>>
SHA1Path(fi) == <<"SHA1", fi.sha1sum>>
SHA256Path(fi) == <<"SHA256", fi.sha256sum>>

\* No record.
NoRecord == <<>>

\* Storage.Lookup, the closure f: the record under key k if it is Same.
LookupKey(inf, fi, k) ==
    IF k \notin DOMAIN inf \/ ~Same(fi, inf[k]) THEN NoRecord ELSE inf[k]

\* A Lookup that looks under the path only.
MirrorLookupPathOnly(inf, fi, byhash) ==
    IF PathKey(fi) \in DOMAIN inf THEN inf[PathKey(fi)] ELSE NoRecord

\* Storage.Lookup of the mirror: under the SHA256 alias first when byhash,
\* then under the path.
MirrorLookup(inf, fi, byhash) ==
    IF byhash /\ LookupKey(inf, fi, SHA256Path(fi)) # NoRecord
    THEN LookupKey(inf, fi, SHA256Path(fi))
    ELSE LookupKey(inf, fi, PathKey(fi))

\* Storage.StoreLink: s.info[p] = fi (the path is new in every call made).
StorageStoreLink(inf, fi) == MapPut(inf, PathKey(fi), fi)

\* Storage.StoreLinkWithHash: s.info[p] = fi unless p is there, and the
\* three aliases are set to fi.
StoreLinkWithHash(inf, fi) ==
    LET i1 == IF PathKey(fi) \in DOMAIN inf THEN inf ELSE MapPut(inf, PathKey(fi), fi)
    IN MapPut(MapPut(MapPut(i1, MD5SumPath(fi), fi), SHA1Path(fi), fi),
              SHA256Path(fi), fi)

\* Mirror.storeLink
MirrorStoreLink(inf, fi, byhash) ==
    IF byhash THEN StoreLinkWithHash(inf, fi) ELSE StorageStoreLink(inf, fi)

\* A run ends: with an error, which leaves the published tree, or with its
\* tree saved and published.
ReuseEnd(r, ok) ==
    [r EXCEPT !.pc = "idle", !.todo = {}, !.info = EmptyMap,
              !.cur = IF ok THEN r.info ELSE @,
              !.has = @ \/ ok]

\* Run and Update up to downloadFiles: fil lists one record per file, and
\* by-hash is what the Release says.
ReuseRun(byhash, fil) ==
    /\ ru.pc = "idle"
    /\ ru.runs < ReuseRuns
    /\ \A t \in fil : \A u \in fil : t[1] = u[1] => t = u
    /\ byhash => \A t \in fil : t[3]
    /\ ru' = [ru EXCEPT !.pc = "run", !.runs = @ + 1, !.byhash = byhash,
                        !.todo = fil, !.asked = {}, !.linked = {}]
    /\ UNCHANGED nonReuseVars

\* reuseOrDownload, one round of the loop, with download, recvResult and
\* handleResult for a file that is not reused: the file is linked from the
\* current tree if Lookup finds its record, else asked from upstream and
\* what download copied is stored.  An error ends the run.
ReuseOrDownload(t, res) ==
    /\ ru.pc = "run"
    /\ t \in ru.todo
    /\ LET fi == Expected(t)
           localfi == IF ru.has THEN MirrorLookup(ru.cur, fi, ru.byhash) ELSE NoRecord
           r == [ru EXCEPT !.todo = @ \ {t}, !.n = (@ + 1) % 2, !.last = t]
       IN IF localfi # NoRecord
          THEN IF res = "ok"
               THEN ru' = [r EXCEPT !.info = MirrorStoreLink(@, localfi, ru.byhash),
                                    !.linked = @ \cup {fi.path}]
               ELSE ru' = ReuseEnd(r, FALSE)
          ELSE IF res = "ok"
               THEN ru' = [r EXCEPT !.info = MirrorStoreLink(@,
                                         CopyWithFileInfo(fi.path, ContentsBody(t[2])),
                                         ru.byhash),
                                    !.asked = @ \cup {fi.path}]
               ELSE ru' = [ReuseEnd(r, FALSE) EXCEPT !.asked = @ \cup {fi.path}]
    /\ UNCHANGED nonReuseVars

\* Update after downloadFiles: Save and replaceLink publish the tree.
ReuseSave ==
    /\ ru.pc = "run"
    /\ ru.todo = {}
    /\ ru' = ReuseEnd(ru, TRUE)
    /\ UNCHANGED nonReuseVars

InitReuse ==
    /\ CacherStarted(EmptyDirs, MaxConns)
    /\ StorageUnused /\ MirrorUnused /\ FetchUnused
    /\ cmp = NoCmp /\ lk = NoLocks /\ prs = NoParse
    /\ ru = [pc |-> "idle", runs |-> 0, byhash |-> FALSE, has |-> FALSE,
             cur |-> EmptyMap, info |-> EmptyMap, todo |-> {}, asked |-> {},
             linked |-> {}, n |-> 0, last |-> <<>>]

NextReuse ==
    \/ \E byhash \in BOOLEAN :
       \E fil \in SUBSET (ReuseFiles \X (1..MaxVer) \X BOOLEAN) : ReuseRun(byhash, fil)
    \/ \E t \in ReuseFiles \X (1..MaxVer) \X BOOLEAN :
       \E res \in SysResults : ReuseOrDownload(t, res)
    \/ ReuseSave

ReuseSpec == InitReuse /\ [][NextReuse]_vars

\* ------------------------------------------------------------------ claims
\* The download goroutines working on p: from their creation by Download to
\* the deletion of the in-flight entry by their deferred function.
FetchTasks(p) == {t \in TaskIds : tasks[t].pc # "free" /\ tasks[t].path = p}

\* C1: for every path and in every interleaving of Get calls, driver ticks
\* and fetch completions there is at most one fetch task for the path, and
\* there is one exactly while the path has an in-flight entry: a Download
\* that finds the entry is handed the existing event and starts no fetch.
C1_OneFetchPerPath ==
    \A p \in Paths :
        /\ Cardinality(FetchTasks(p)) <= 1
        /\ (p \in dlChannels) <=> (FetchTasks(p) # {})

\* A Download of Contents found the in-flight entry of a fetch that is still
\* running, every client waits for that one fetch, and the fetch the driver
\* of Release started on its tick is running too.
C1_Witness ==
    /\ \E t \in FetchTasks(Contents) : tasks[t].joined
    /\ \A c \in Clients : client[c].pc = "wait" /\ client[c].path = Contents
    /\ driver[Release].w1
    /\ FetchTasks(Release) # {}

\* C2: when all N calls of Get for Contents, each started while the store had
\* no entry for it, are running at once and upstream has answered every
\* request with 200 and the published bytes, one upstream GET was issued.
C2_OneUpstreamGet ==
    ( /\ upAllOk
      /\ \A c \in Clients :
            /\ client[c].pc \notin {"idle", "done"}
            /\ client[c].path = Contents
            /\ ~client[c].stored )
    => upReq[Contents] <= 1

\* C3: every call of Get that has started eventually returns.
C3_EveryGetReturns ==
    \A c \in Clients : (client[c].pc # "idle") ~> (client[c].pc = "done")

\* C4: when the fetch of a path ends because the bytes of a 200 response do
\* not match the expected record, the status its deferred function records
\* for the path is not 200.
C4_MismatchRecordsFailure ==
    [][ \A t \in TaskIds :
          ( /\ tasks[t].pc = "fin"
            /\ tasks[t].cause = "mismatch"
            /\ tasks'[t].pc = "free" )
          => results'[tasks[t].path] # StatusOK ]_vars

\* The bytes data do not satisfy the expected record fi.
BytesFail(fi, data) ==
    \/ fi.size # SizeOf(data)
    \/ fi.md5sum # NoSum /\ fi.md5sum # MD5Of(data)
    \/ fi.sha1sum # NoSum /\ fi.sha1sum # SHA1Of(data)
    \/ fi.sha256sum # NoSum /\ fi.sha256sum # SHA256Of(data)

\* The answer to the request of task record r is 200 with bytes that fail
\* the record it was started with.
Mismatching(r) ==
    /\ r.pc \in {"req", "fin"}
    /\ r.resp.kind = "ok"
    /\ r.valid # <<>>
    /\ BytesFail(r.valid[1], r.resp.body)

\* C5: no step of a fetch whose downloaded bytes fail the expected record
\* changes the meta storage, the items storage (entries, used bytes, files)
\* or Cacher.info.
C5_MismatchLeavesStore ==
    [][ \A t \in TaskIds :
          (tasks'[t] # tasks[t] /\ (Mismatching(tasks[t]) \/ Mismatching(tasks'[t])))
          => UNCHANGED <<meta, items, info>> ]_vars

\* A fetch of Contents has handled bytes that fail its expected record.
C5_Witness ==
    \E t \in TaskIds :
        /\ tasks[t].pc = "fin"
        /\ tasks[t].path = Contents
        /\ Mismatching(tasks[t])

\* C6: a Get for Contents that started after the Release of the last
\* version, which authorises the Contents of that version, was cached, and
\* while a body was stored for Contents, returns 200 only with the bytes that
\* Release authorises.
C6_NoStaleBody ==
    \A c \in Clients :
        ( /\ client[c].pc = "done"
          /\ client[c].path = Contents
          /\ client[c].rel = MaxVer
          /\ client[c].stored
          /\ client[c].status = StatusOK )
        => client[c].body = ContentsBody(MaxVer)

\* A status other than 200 is recorded for p.
Negative(p) == p \in DOMAIN results /\ results[p] # StatusOK

C8_ErrorRecords500 ==
    [][ \A t \in TaskIds :
          ( /\ tasks[t].pc = "fin"
            /\ tasks[t].cause \in {"neterr", "readerr"}
            /\ tasks'[t].pc = "free" )
          => results'[tasks[t].path] = StatusInternalServerError ]_vars

\* C9: two calls of Get released by the same event return the same status
\* and the same body.
C9_SameOutcome ==
    \A c, d \in Clients :
        ( /\ client[c].pc = "done"
          /\ client[d].pc = "done"
          /\ d \in client[c].cohort )
        => /\ client[c].status = client[d].status
           /\ client[c].body = client[d].body

\* The bytes stored for the path of call c satisfy the record c has read.
StoredMatches(c) ==
    LET p == client[c].path
        st == StorageOf(p, meta, items)
    IN /\ p \in DOMAIN st.cache
       /\ ~BytesFail(client[c].fi[1], st.files[p])

SemHolders(host) ==
    {t \in TaskIds : tasks[t].pc \in {"req", "fin"} /\ HostOf(tasks[t].path) = host}

\* The download goroutines that are in acquireSemaphore for the host.
SemWaiting(host) ==
    {t \in TaskIds : tasks[t].pc = "sem" /\ HostOf(tasks[t].path) = host}

\* C11: with MaxConns = n > 0 at most n download goroutines hold a token of
\* the host, and the tokens left in its channel are n less the holders; with
\* MaxConns = 0 no semaphore exists and every goroutine that is at
\* acquireSemaphore can go on to send its request.
C11_SemaphoreBound ==
    /\ maxConns > 0 =>
          /\ Cardinality(SemHolders(Host)) <= maxConns
          /\ Tokens(Host) = maxConns - Cardinality(SemHolders(Host))
    /\ maxConns = 0 =>
          /\ hostSem = EmptyMap
          /\ \A t \in SemWaiting(Host) :
                upReq[tasks[t].path] < MaxReq => ENABLED FetchIssue(t, "published", TRUE)

\* With the largest limit, as many goroutines as the limit allows hold a
\* token and one more is blocked in acquireSemaphore.
C11_Witness ==
    /\ maxConns = MaxConns
    /\ Cardinality(SemHolders(Host)) = maxConns
    /\ SemWaiting(Host) # {}

\* ---------------------------------------------------------- storage claims
\* The sum of Size() over the entries of the paths ps of a cache map.
RECURSIVE SumSize(_, _)
SumSize(cache, ps) ==
    IF ps = {}
    THEN 0
    ELSE LET q == CHOOSE x \in ps : TRUE
         IN cache[q].fi.size + SumSize(cache, ps \ {q})

\* C12: after any sequence of Load, Insert, Lookup and Delete, evictions,
\* overwrites and calls that return an error included, used is the sum of
\* Size() over the entries of the cache map.
C12_UsedIsSumOfSizes == cm.used = SumSize(cm.cache, DOMAIN cm.cache)

\* An Insert has replaced an entry and maint has evicted another one for it.
C12_Witness ==
    /\ call.op = "Insert" /\ call.err = "nil"
    /\ call.replaced
    /\ call.evicted # {}
    /\ call.path \in DOMAIN cm.cache

\* An Insert has returned the error of os.Link after the entry it replaces
\* was removed.
C12_WitnessError ==
    /\ call.op = "Insert" /\ call.err = "link"
    /\ call.replaced
    /\ cm.used > 0

\* C13: for a Storage with capacity > 0, whenever Load or Insert has
\* returned, used <= capacity.
C13_UsedWithinCapacity ==
    (cmCapacity > 0 /\ call.op \in {"Insert", "Load", "Restart"})
        => cm.used <= cmCapacity

\* An Insert into a full store has returned: maint evicted for it and the
\* entries that remain, the new one among them, fill the capacity.
C13_Witness ==
    /\ cmCapacity > 0
    /\ call.op = "Insert" /\ call.err = "nil"
    /\ call.evicted # {}
    /\ call.path \in DOMAIN cm.cache
    /\ Cardinality(DOMAIN cm.cache) > 1
    /\ cm.used = cmCapacity

\* Load has returned on a directory that held more than the capacity: maint
\* evicted two entries.
C13_WitnessLoad ==
    /\ cmCapacity > 0
    /\ call.op = "Restart"
    /\ Cardinality(call.evicted) > 1
    /\ cm.used = cmCapacity

\* C14: after Insert(tempfile, r) has returned nil, a Lookup(r) that follows
\* at once returns a file and a nil error, whatever the capacity, the size of
\* the record and the content of the store.
C14_LookupAfterInsert ==
    (call.op = "Insert" /\ call.err = "nil") => LookupFound(cm, call.fi[1])

\* The access stamp of path q when the maint of an Insert of p runs on store
\* st: the new entry of p is stamped with st.lclock, the others keep theirs.
StampAtMaint(st, p, q) == IF q = p THEN st.lclock ELSE st.cache[q].atime

\* A step of a nil Insert: every entry its maint evicts has a smaller stamp
\* than every entry it keeps, and no stamp changes but the new entry's.
InsertEvictsOldest ==
    (call'.op = "Insert" /\ call'.err = "nil") =>
        /\ \A e \in call'.evicted : \A q \in DOMAIN cm'.cache :
               StampAtMaint(cm, call'.path, e) < StampAtMaint(cm, call'.path, q)
        /\ \A q \in DOMAIN cm'.cache :
               cm'.cache[q].atime = StampAtMaint(cm, call'.path, q)
        /\ cm'.lclock = cm.lclock + 1

\* A step of a successful Lookup: its entry is stamped with the logical
\* clock, later than every other entry, and no other stamp changes.
LookupRefreshes ==
    (call'.op = "Lookup" /\ call'.err = "nil") =>
        /\ cm'.cache[call'.path].atime = cm.lclock
        /\ cm'.lclock = cm.lclock + 1
        /\ \A q \in DOMAIN cm'.cache \ {call'.path} :
               /\ cm'.cache[q].atime = cm.cache[q].atime
               /\ cm'.cache[q].atime < cm.lclock

\* C15: eviction removes the entries with the smallest access stamps: every
\* entry that the maint of an Insert evicts has a smaller stamp than every
\* entry it keeps, where a nil Insert and a successful Lookup stamp their
\* entry with the logical clock, later than every other entry, and no other
\* entry's stamp changes.
C15_EvictsLeastRecentlyUsed == [][InsertEvictsOldest /\ LookupRefreshes]_vars

\* An Insert has evicted an entry and kept, besides the new entry, an entry
\* whose stamp a Lookup had refreshed.
C15_Witness ==
    /\ call.op = "Insert" /\ call.err = "nil"
    /\ call.evicted # {}
    /\ call.path \notin call.evicted
    /\ looked \cap DOMAIN cm.cache # {}

\* The digests of the kinds record r carries, as a record of bytes b must
\* have them.
CarriedMatch(r, b) ==
    /\ r.md5sum # NoSum => r.md5sum = MD5Of(b)
    /\ r.sha1sum # NoSum => r.sha1sum = SHA1Of(b)
    /\ r.sha256sum # NoSum => r.sha256sum = SHA256Of(b)

\* The digests record r carries equal those of entry record t.
CarriedSame(r, t) ==
    /\ r.md5sum # NoSum => r.md5sum = t.md5sum
    /\ r.sha1sum # NoSum => r.sha1sum = t.sha1sum
    /\ r.sha256sum # NoSum => r.sha256sum = t.sha256sum

\* C16: Lookup(r) returns ErrNotFound when the store has no entry for r's
\* path, or when the entry's size or a digest r carries differs from the
\* entry's; when Lookup(r) succeeds, every digest r carries is the digest of
\* the bytes of the stored file, also for an entry made by Load.
C16_LookupChecksDigests ==
    call.op = "Lookup" =>
        LET r == call.fi[1]
            p == call.path
        IN /\ p \notin DOMAIN cm.cache => call.err = "ErrNotFound"
           /\ (/\ p \in DOMAIN cm.cache
               /\ \/ r.size # cm.cache[p].fi.size
                  \/ ~CarriedSame(r, cm.cache[p].fi))
                => call.err = "ErrNotFound"
           /\ call.err = "nil" =>
                /\ p \in DOMAIN cm.files
                /\ r.size = SizeOf(cm.files[p])
                /\ CarriedMatch(r, cm.files[p])

\* A Lookup with a record that carries a SHA256 only has succeeded on an entry
\* that Load made, and has computed its digests.
C16_Witness ==
    /\ call.op = "Lookup" /\ call.err = "nil"
    /\ call.fi[1].sha256sum # NoSum /\ call.fi[1].md5sum = NoSum
    /\ cm.lclock = Cardinality(DOMAIN cm.cache) + 1
    /\ looked = {call.path}
    /\ \E q \in DOMAIN cm.cache : ~HasChecksum(cm.cache[q].fi)

\* A Lookup has returned ErrNotFound for a record of the entry's size that
\* carries another SHA256.
C16_WitnessMismatch ==
    /\ call.op = "Lookup" /\ call.err = "ErrNotFound"
    /\ call.path \in DOMAIN cm.cache
    /\ call.fi[1].size = cm.cache[call.path].fi.size
    /\ call.fi[1].sha256sum # cm.cache[call.path].fi.sha256sum

\* A step of a nil Insert for a path that has an entry.
Overwrites ==
    /\ call'.op = "Insert" /\ call'.err = "nil"
    /\ call'.replaced

\* What used is when only the new record's size is counted for the path of
\* the Insert this step makes.
UsedAfterReplace == cm.used - cm.cache[call'.path].fi.size + call'.fi[1].size

\* The Insert of this step has replaced the entry of its path: one entry and
\* one file for it, holding the new record and bytes, Len() as before, the
\* other entries as before, used counting the new size only.
Replaced ==
    /\ DOMAIN cm'.cache = DOMAIN cm.cache
    /\ DOMAIN cm'.files = DOMAIN cm.cache
    /\ Len(cm'.lru) = Len(cm.lru)
    /\ cm'.cache[call'.path].fi = call'.fi[1]
    /\ cm'.files[call'.path] = call'.data
    /\ \A q \in DOMAIN cm.cache \ {call'.path} :
           cm'.cache[q] = cm.cache[q] /\ cm'.files[q] = cm.files[q]
    /\ cm'.used = UsedAfterReplace

\* The stores st and tt hold the same entries, files and used, whatever the
\* access stamps.
SameUpToStamps(st, tt) ==
    /\ DOMAIN st.cache = DOMAIN tt.cache
    /\ \A q \in DOMAIN st.cache : st.cache[q].fi = tt.cache[q].fi
    /\ st.files = tt.files
    /\ st.used = tt.used
    /\ Len(st.lru) = Len(tt.lru)

\* A nil Insert is followed by a nil Insert of the same path and bytes.
InsertsAgain ==
    /\ call.op = "Insert" /\ call.err = "nil"
    /\ call'.op = "Insert" /\ call'.err = "nil"
    /\ call'.fi = call.fi /\ call'.data = call.data

C17_WitnessTwice ==
    /\ call.op = "Insert" /\ call.err = "nil" /\ call.replaced
    /\ cm.lclock = 2
    /\ cm.lru = <<call.path>>
    /\ cm.cache[call.path].atime = 1
    /\ looked = {}

\* C18: Insert with a record whose path is empty, ".", absolute or not equal
\* to its cleaned form returns ErrBadPath and leaves the store (cache map,
\* heap, used, logical clock, files) as it was.
C18_BadPathRejected ==
    [][(call'.op = "Insert" /\ call'.path \in BadPaths)
            => (call'.err = "ErrBadPath" /\ cm' = cm)]_vars

\* An Insert with the path "/abs" has returned ErrBadPath on a store that
\* holds entries.
C18_Witness ==
    /\ call.op = "Insert" /\ call.err = "ErrBadPath"
    /\ call.path = <<"", "abs">>
    /\ cm.used > 0

TreeComplete(d, t) ==
    /\ t \in DOMAIN d.trees
    /\ d.trees[t].saved
    /\ d.trees[t].json = d.trees[t].files
    /\ ReleaseFiles \cap d.trees[t].files # {}
    /\ d.trees[t].auth \subseteq d.trees[t].files

\* The symlink <root>/<id> is absent, no run having renamed one into place,
\* or resolves to the tree of a run that completed.
SymlinkAtCompleteTree ==
    IF mroot.link = 0
    THEN /\ mrun.current = 0
         /\ mrun.pc \notin {"renamed", "done"}
         /\ mrun.failedAt # "renamed"
    ELSE TreeComplete(mroot, mroot.link)

\* C20, as stated: at every moment of a run and of the gc after it the symlink
\* is absent or resolves to the tree of a run that completed, and a run that
\* has failed or was cancelled leaves the symlink at the previous tree.
C20_SymlinkAtCompletedRun ==
    /\ SymlinkAtCompleteTree
    /\ mrun.failedAt # "none" => mroot.link = mrun.current

\* C20, amended: the same, but a run that fails or is cancelled leaves the
\* symlink at the previous tree only if Update returns its error before the
\* rename; when the DirSync after the rename fails, Update returns an error
\* and the symlink resolves to the new tree, which is complete.
C20_SymlinkAtCompleteTree ==
    /\ SymlinkAtCompleteTree
    /\ mrun.failedAt \notin {"none", "renamed"} => mroot.link = mrun.current
    /\ mrun.failedAt = "renamed" => mroot.link = mrun.stamp
    /\ mrun.pc \in {"done", "renamed"} => mroot.link = mrun.stamp

\* A second run has failed at an item after the first run published a tree
\* with an item, and gc has removed the failed run's directory: the symlink
\* still resolves to the first tree.
C20_Witness ==
    /\ mrun.failedAt = "items"
    /\ mrun.pc = "failed"
    /\ mroot.link # 0
    /\ mroot.link # mrun.stamp
    /\ mroot.trees[mroot.link].auth # {}
    /\ DOMAIN mroot.trees = {mroot.link}

\* A run has replaced the tree of an earlier run, reusing an item of it, and
\* gc has removed the earlier tree.
C20_WitnessSwap ==
    /\ mrun.pc = "done"
    /\ mrun.current # 0
    /\ mroot.link = mrun.stamp
    /\ DOMAIN mroot.trees = {mroot.link}
    /\ mrun.curInfo \cap mroot.trees[mroot.link].files \cap MirrorItems # {}

\* --------------------------------------------------------- download claims
\* Download d has not yet slept for the retry it counted last.
SleepDue(d) == d.pc = "retry" \/ d.err = "ctx"

\* The requests download d has sent, counted from what it has done: the
\* first one, one per retry and one per target given up, less the one it is
\* about to send at RETRY or did not send because the context was done.
RequestsDue(d) ==
    1 + d.retries + (Len(Targets(fconf)) - Len(d.targets))
      - (IF SleepDue(d) THEN 1 ELSE 0)

\* The sleeps of d double from one second: each is the one before or twice
\* it, and the last one is that of the latest retry.
SleepsDouble(d) ==
    /\ \A i \in 1..Len(d.slept) :
          IF i = 1 THEN d.slept[i] = 1
          ELSE d.slept[i] = d.slept[i - 1] \/ d.slept[i] = 2 * d.slept[i - 1]
    /\ IF Len(d.slept) = 0
       THEN d.retries = 0 \/ (d.retries = 1 /\ SleepDue(d))
       ELSE \/ d.slept[Len(d.slept)] = 2 ^ (d.retries - 1)
            \/ /\ d.retries >= 2 /\ SleepDue(d)
               /\ d.slept[Len(d.slept)] = 2 ^ (d.retries - 2)
    /\ Len(Targets(fconf)) = 1 => \A i \in 1..Len(d.slept) : d.slept[i] = 2 ^ (i - 1)

\* The result d reports that its retries are spent on: a transport or read
\* error, or a 5xx status.
Exhausted(d) ==
    /\ d.pc = "sent"
    /\ d.err \in {"transport", "read"} \/ (d.err = "nil" /\ d.status >= 500)

\* C21: a download retries at most httpRetries = 5 times in all, on a
\* transport error, a body read error or a 5xx status, and sleeps 1, 2, 4, 8,
\* 16 seconds before the successive retries; a 4xx status is never retried;
\* it reports the error or the 5xx status only with the retries spent, and
\* the run then fails.
C21_RetriesAndBackoff ==
    \A f \in DOMAIN dl :
        LET d == dl[f]
        IN /\ d.retries <= httpRetries
           /\ Len(d.asked) = RequestsDue(d)
           /\ Len(d.slept) <= httpRetries + Len(Targets(fconf)) - 1
           /\ SleepsDouble(d)
           /\ (400 <= d.status /\ d.status < 500) => d.pc = "sent" /\ d.err = "nil"
           /\ Exhausted(d) => d.retries = httpRetries
           /\ (Exhausted(d) /\ f \in frun.handled) =>
                  frun.pc = "failed" /\ f \notin frun.stored

\* A download has spent its five retries on transport errors after sleeping
\* 1, 2, 4, 8 and 16 seconds, and the run has failed on its result.
C21_Witness ==
    /\ "f1" \in frun.handled
    /\ dl["f1"].err = "transport"
    /\ dl["f1"].slept = <<1, 2, 4, 8, 16>>
    /\ Len(dl["f1"].asked) = 6
    /\ frun.pc = "failed"

\* A download has reported a 5xx status with its retries spent.
C21_WitnessStatus ==
    /\ "f1" \in frun.handled
    /\ dl["f1"].err = "nil" /\ dl["f1"].status = StatusInternalServerError
    /\ dl["f1"].retries = httpRetries
    /\ frun.pc = "failed"

\* The place of a target in the order canonical path, SHA256 alias, SHA1
\* alias, MD5 alias.
Rank(t) ==
    CASE t = "path" -> 1
      [] t = "sha256" -> 2
      [] t = "sha1" -> 3
      [] t = "md5" -> 4

\* The requests of d go through the targets in that order, beginning with
\* the canonical path, and move on by one target at a time.
AskedInOrder(d) ==
    \A i \in 1..Len(d.asked) :
        IF i = 1 THEN d.asked[i] = "path"
        ELSE Rank(d.asked[i]) - Rank(d.asked[i - 1]) \in {0, 1}

\* The target of the latest request of d is the one its mismatches so far
\* have led to: the first with none, the next one after each.
AskedAfterMismatches(d) ==
    (Len(d.asked) > 0 /\ d.pc # "retry" /\ d.err # "ctx") =>
        Rank(d.asked[Len(d.asked)]) = 1 + d.bad - (IF d.err = "checksum" THEN 1 ELSE 0)

\* C22: with the record known and by-hash enabled a download requests the
\* canonical path first and after each checksum mismatch the SHA256, the SHA1
\* and the MD5 alias, in that order; it reports "invalid checksum" only after
\* all four returned mismatching bytes, and without by-hash the first
\* mismatch is the failure.
C22_ByHashOrder ==
    \A f \in DOMAIN dl :
        LET d == dl[f]
        IN /\ AskedInOrder(d)
           /\ AskedAfterMismatches(d)
           /\ d.err = "checksum" <=>
                 d.bad = (IF fconf.byhash /\ Known(fconf) THEN 4 ELSE 1)
           /\ d.err = "checksum" => d.pc = "sent" /\ ~d.fi
           /\ (d.err = "checksum" /\ f \in frun.handled) => frun.pc = "failed"

\* A by-hash download has asked for the path and the three aliases, got
\* mismatching bytes four times and reported "invalid checksum".
C22_Witness ==
    /\ "f1" \in DOMAIN dl
    /\ fconf.byhash
    /\ dl["f1"].err = "checksum"
    /\ dl["f1"].asked = <<"path", "sha256", "sha1", "md5">>
    /\ dl["f1"].bad = 4

\* A by-hash download has got the bytes of the record from the SHA1 alias
\* after two mismatches.
C22_WitnessAlias ==
    /\ "f1" \in frun.stored
    /\ dl["f1"].fi
    /\ dl["f1"].asked = <<"path", "sha256", "sha1">>

\* A download without by-hash has failed on its first mismatch.
C22_WitnessPlain ==
    /\ "f1" \in DOMAIN dl
    /\ ~fconf.byhash
    /\ dl["f1"].err = "checksum"
    /\ dl["f1"].asked = <<"path">>

\* ------------------------------------------------------ mirror status claims
\* The status a is one the claim says is passed over for a file of kind k: a
\* 4xx for a release file, a 404 for an index.
Tolerated(k, a) ==
    \/ k = "release" /\ 400 <= a /\ a < 500
    \/ k = "index" /\ a = StatusNotFound

\* The status a is a final status other than 200.
OtherStatus(a) == a \notin {NetError, StatusOK}

\* C23: in a mirror run a 4xx for a release file and a 404 for an index are
\* passed over without error, while any other final status but 200, for a
\* release file, an index or an item (404 for an item included), makes the
\* run fail with the symlink not replaced.
C23_StatusHandling ==
    LET k == mrun.last[1]
        a == mrun.last[2]
    IN k # "none" =>
         /\ Tolerated(k, a) => mrun.failedAt \notin {"release", "indices", "items"}
         /\ (OtherStatus(a) /\ ~Tolerated(k, a)) =>
                /\ mrun.pc = "failed"
                /\ mrun.failedAt \in {"release", "indices", "items"}
                /\ mroot.link = mrun.current

\* A run has published its tree after a 4xx for one of the release files and
\* a 404 for the index.
C23_Witness ==
    /\ mrun.pc = "done"
    /\ mrun.last = <<"index", StatusNotFound>>
    /\ mroot.link = mrun.stamp
    /\ ~(ReleaseFiles \subseteq mroot.trees[mroot.link].files)

\* A run has failed on a 404 for an item and the symlink is where the run
\* before left it.
C23_WitnessItem ==
    /\ mrun.pc = "failed"
    /\ mrun.last = <<"item", StatusNotFound>>
    /\ mrun.current # 0
    /\ mroot.link = mrun.current

\* A run has failed on a 403 for the index.
C23_WitnessIndex ==
    /\ mrun.pc = "failed"
    /\ mrun.last = <<"index", StatusForbidden>>
    /\ mroot.link = mrun.current

\* ------------------------------------------------------------- Same claims
\* The digests of one kind, as the claim has them compared: one that only
\* one of the two records has is passed over, two must be equal.
DigestsAgree(x, y) == (x # NoSum /\ y # NoSum) => x = y

\* C24: fi.Same(t) is true exactly when the two records have the same path
\* and size and every digest kind present on both is equal, a digest present
\* on only one of them, whichever, being ignored.
C24_SameIgnoresAbsent ==
    cmp.called =>
        (cmp.ret <=> /\ cmp.fi.path = cmp.t.path
                     /\ cmp.fi.size = cmp.t.size
                     /\ DigestsAgree(cmp.fi.md5sum, cmp.t.md5sum)
                     /\ DigestsAgree(cmp.fi.sha1sum, cmp.t.sha1sum)
                     /\ DigestsAgree(cmp.fi.sha256sum, cmp.t.sha256sum))

\* ------------------------------------------------------- meta store claims
\* A step of a Storage made with capacity 0, as NewCacher makes the meta
\* store, by one of the calls the cacher makes on it: Load, Lookup, Insert.
MetaStoreStep ==
    /\ cmCapacity = 0 /\ cmCapacity' = 0
    /\ call'.op \in {"Load", "Lookup", "Insert"}

\* Every path with an entry before the step has one after it.
EntriesKept == DOMAIN cm.cache \subseteq DOMAIN cm'.cache

\* C25: meta data files are never removed once cached: the meta store never
\* evicts, and a path that has an entry in it has one in every later state,
\* its content at most replaced by a newer download of the same path.
C25_MetaNeverRemoved == [][MetaStoreStep => EntriesKept]_vars

\* The same for the steps in which no system call fails.
C25_MetaKeptUnlessFault == [][(MetaStoreStep /\ call'.err = "nil") => EntriesKept]_vars

\* ------------------------------------------------------ Get boundary claims
\* Client c begins a Get for a meta data path with one of the extensions exts.
GetBegins(c, exts) ==
    /\ client[c].pc = "idle" /\ client'[c].pc # "idle"
    /\ IsMeta(client'[c].path[2])
    /\ Ext(client'[c].path[2]) \in exts

\* Get returns 404 to c at once: the stores, the in-flight table and the
\* download goroutines are as before.
GetRejected(c) ==
    /\ client'[c].pc = "done"
    /\ client'[c].status = StatusNotFound
    /\ UNCHANGED <<info, meta, items, dlChannels, results, tasks>>

\* C26, as stated: Get for a meta file path whose extension is .xz, .lzma or
\* .lz returns 404 without consulting the store and without starting a fetch.
C26_CompressedRejected ==
    [][\A c \in Clients : GetBegins(c, {".xz", ".lzma", ".lz"}) => GetRejected(c)]_vars

\* Get goes on to RETRY for c, where it reads c.info and consults the store.
GetProceeds(c) == client'[c].pc = "retry"

\* C26, amended: Get for a meta file path whose extension is .lzma or .lz
\* returns 404 without consulting the store and without starting a fetch; a
\* path whose extension is .xz is supported and served like any meta file.
C26_LzmaRejected ==
    [][\A c \in Clients :
          /\ GetBegins(c, {".lzma", ".lz"}) => GetRejected(c)
          /\ GetBegins(c, {".xz"}) => GetProceeds(c)]_vars

\* A Get for Packages.lzma has returned 404 and no download was started.
C26_Witness ==
    \E c \in Clients :
        /\ client[c].path = PackagesLzma
        /\ client[c].pc = "done"
        /\ client[c].status = StatusNotFound
        /\ dlChannels = {}

\* A Get for Packages.xz has started a download and waits for it.
C26_WitnessXz ==
    \E c \in Clients :
        /\ client[c].path = PackagesXz
        /\ client[c].pc = "wait"
        /\ PackagesXz \in dlChannels

\* ------------------------------------------------------- mirror fetch claims
\* The download goroutines that have not yet returned.
Fetching == {f \in DOMAIN dl : dl[f].pc # "sent"}

\* A file waits to be started and nothing has cancelled or failed the call.
FileWaits == frun.pc = "running" /\ frun.todo # {} /\ ~frun.cancelled

\* Some waiting file's download can be started now.
CanStart == ENABLED (\E f \in FetchFiles : FetchAcquire(f))

\* C27, as stated: max_conns bounds the downloads that run at once, and 0
\* means unbounded: under max_conns = 0 a waiting file's download starts
\* without blocking on the semaphore.
C27_ZeroMeansUnbounded ==
    /\ fconf.maxConns > 0 => Cardinality(Fetching) <= fconf.maxConns
    /\ (fconf.maxConns = 0 /\ FileWaits) => CanStart

\* The part of C27 the code keeps: a positive max_conns bounds the downloads
\* that run at once, and the tokens out and in add up to it.
C27_PositiveBounds ==
    fconf.maxConns > 0 =>
        /\ Cardinality(Fetching) <= fconf.maxConns
        /\ fsem + Cardinality(Fetching) = fconf.maxConns

\* Under max_conns = 0 no download is ever started.
C27_ZeroStartsNothing == fconf.maxConns = 0 => dl = EmptyMap

\* Two downloads run at once under max_conns = 2.
C27_WitnessBound == fconf.maxConns = 2 /\ Cardinality(Fetching) = 2 /\ fsem = 0

\* Under max_conns = 0 the call has ended by cancellation with both files
\* still waiting.
C27_WitnessZero ==
    fconf.maxConns = 0 /\ frun.pc = "failed" /\ frun.todo = FetchFiles

\* ------------------------------------------------------ cacher table claims
\* No download goroutine of p is running.
NoFetchOf(p) == \A t \in TaskIds : tasks[t].pc = "free" \/ tasks[t].path # p

\* Every delayed deletion scheduled for p has run: cachePeriod has elapsed
\* since the last download of p ended.
PeriodElapsed(p) == timers[p] = 0

\* C28: once the last download of p has ended and cachePeriod has elapsed
\* since, with no further request for p, neither the in-flight table nor the
\* recent-status table has an entry for p.
C28_TablesEmptyAfterPeriod ==
    \A p \in Paths :
        (NoFetchOf(p) /\ PeriodElapsed(p)) =>
            (p \notin dlChannels /\ p \notin DOMAIN results)

\* Contents was requested from upstream, its download has ended and its
\* delayed deletion has run.
C28_Witness ==
    /\ upReq[Contents] >= 1
    /\ NoFetchOf(Contents) /\ PeriodElapsed(Contents)
    /\ Contents \notin DOMAIN results

\* The same after a download that recorded a status and was followed by
\* another: two downloads of Contents have ended and both deletions have run.
C28_WitnessTwice ==
    /\ upReq[Contents] >= 2
    /\ NoFetchOf(Contents) /\ PeriodElapsed(Contents)
    /\ Contents \notin DOMAIN info

\* --------------------------------------------------------------- lock claims
\* fiLock is above dlLock, dlLock above Storage.mu.
LockRank(l) ==
    CASE l = "fiLock" -> 3
      [] l = "dlLock" -> 2
      [] OTHER -> 1

\* No goroutine asks for a lock above one it holds.
LockOrderKept ==
    \A q \in LockProcs : \A w \in Wants(q), h \in Held(q) :
        LockRank(w) <= LockRank(h)

\* q is at acquireSemaphore's <-sem or at a <-ch.
AtWait(q) == lk.pc[q] # 0 /\ At(q).op \in {"AcquireSem", "Wait"}

\* No goroutine holds a lock where it waits for a token or for an event.
NoLockAtWait == \A q \in LockProcs : AtWait(q) => Held(q) = {}

\* The goroutines q waits for at its Lock or RLock: the holders of the
\* lock, or for a reader the writers that wait for it.
Blockers(q) ==
    LET l == At(q).l
    IN IF At(q).op = "Lock" THEN {h \in LockProcs \ {q} : l \in Held(h)}
       ELSE IF lk.wr[l] # <<>> THEN {lk.wr[l]}
       ELSE lk.wq[l]

\* The goroutines that run or will: those whose statement can run now, and
\* in k rounds those that wait for a lock behind such goroutines only.
RECURSIVE Live(_)
Live(k) ==
    IF k = 0 THEN {q \in LockProcs : Runnable(q)}
    ELSE LET L == Live(k - 1)
         IN L \cup {q \in LockProcs : Wants(q) # {} /\ Blockers(q) \subseteq L}

\* No goroutine that waits for a lock waits in a circle or behind a
\* goroutine that waits for a token or an event: it waits behind at most
\* one goroutine per lock and the writer a reader queues behind.
NoLockStall ==
    LET L == Live(Cardinality(Locks) + 1)
    IN \A q \in LockProcs : Wants(q) # {} => q \in L

\* C29: no cacher task asks for a higher lock while it holds a lower one in
\* the order fiLock > dlLock > Storage.mu, none holds any of the three while
\* it is blocked on a semaphore or on an in-flight event, and no
\* interleaving of Get, Download, downloads and refresh drivers deadlocks on
\* these locks.
C29_LockOrder == LockOrderKept /\ NoLockAtWait /\ NoLockStall

\* A download holds fiLock and waits for Storage.mu, which a Get's Lookup
\* holds, while another goroutine waits for fiLock behind it.
C29_Witness ==
    \E d \in LockProcs, g \in LockProcs :
        /\ d[1] = "download" /\ g[1] = "get"
        /\ lk.wr["fiLock"] = d /\ Wants(d) = {"mu"}
        /\ lk.wr["mu"] = g

\* A download is blocked at the semaphore, whose one token another holds,
\* while a Get waits for its event.
C29_WitnessSem ==
    \E d \in LockProcs, g \in LockProcs :
        /\ d[1] = "download" /\ g[1] = "get"
        /\ lk.pc[d] # 0 /\ At(d).op = "AcquireSem" /\ lk.sem = 0
        /\ lk.pc[g] # 0 /\ At(g).op = "Wait" /\ lk.ev[g] = d[2]

\* A reader waits behind a writer that waits for dlLock.
C29_WitnessQueue ==
    \E g \in LockProcs :
        /\ Wants(g) = {"dlLock"} /\ At(g).op = "RLock"
        /\ lk.wq["dlLock"] # {}
        /\ lk.rd["dlLock"] # {}

\* ------------------------------------------------------ cancellation claims
\* The download t whose context is done ends: its deferred function runs.
CancelledEnds(t) ==
    tasks[t].ctx /\ tasks[t].pc = "fin" /\ tasks'[t].pc = "free"

\* The token is back in the host's channel, the in-flight entry is gone and
\* with it the event closed: no call waits for it any more.
CleanedUp(t) ==
    LET p == tasks[t].path
    IN /\ maxConns = 0 \/ hostSem'[HostOf(p)] = Tokens(HostOf(p)) + 1
       /\ p \notin dlChannels'
       /\ \A c \in Clients : ~(client'[c].pc = "wait" /\ client'[c].path = p)

Records500(t) == results'[tasks[t].path] = StatusInternalServerError

\* C30, as stated: a cacher fetch whose context is cancelled, at whatever
\* point (waiting for the semaphore, for the response, or reading the body),
\* releases its token, removes its in-flight entry and closes its event, and
\* the status it records is the default 500.
C30_CancelledRecords500 ==
    [][\A t \in TaskIds : CancelledEnds(t) => (CleanedUp(t) /\ Records500(t))]_vars

\* The context ended while the body of a 200 response was copied.
EndedInBody(t) == tasks[t].resp.kind = "readerr"

\* What the code keeps of C30: the cleanup in every case, and the 500 unless
\* the context ended while the body was read.
C30_CancelledCleansUp ==
    [][\A t \in TaskIds :
          CancelledEnds(t) =>
              (CleanedUp(t) /\ (Records500(t) \/ EndedInBody(t)))]_vars

\* Every download whose context is done ends.
C30_CancelledEndsEventually ==
    \A t \in TaskIds : tasks[t].ctx ~> (tasks[t].pc = "free")

\* A download whose context ended at the semaphore is about to record 500.
C30_WitnessSem ==
    \E t \in TaskIds :
        /\ tasks[t].ctx /\ tasks[t].pc = "fin"
        /\ tasks[t].resp.kind = "neterr"
        /\ tasks[t].statusCode = StatusInternalServerError

\* A download whose context ended in the body is about to record 200.
C30_WitnessBody ==
    \E t \in TaskIds :
        tasks[t].ctx /\ tasks[t].pc = "fin" /\ tasks[t].statusCode = StatusOK

\* ------------------------------------------------------------ driver claims
\* The paths maintMeta starts a driver for.
Driven == {p \in Paths : p[2] \in {"Release", "InRelease"}}

\* p is cached for the first time in this step: its driver is started.
FirstCachedStarts(p) ==
    (p \notin DOMAIN meta.cache /\ p \in DOMAIN meta'.cache) =>
        (driver[p].pc = "none" /\ driver'[p].pc = "tick")

\* The driver of p has its tick: it has called Download for p and holds its
\* event, and for a Release goes on to Release.gpg.
TickDownloads(p) ==
    (driver[p].pc = "tick" /\ driver'[p].pc # "tick") =>
        /\ p \in dlChannels'
        /\ driver'[p].w1
        /\ driver'[p].pc = IF p[2] = "Release" THEN "dl2" ELSE "wait"

\* The driver of a Release has called Download for Release.gpg and holds
\* its event.
GpgDownloads(p) ==
    (driver[p].pc = "dl2" /\ driver'[p].pc # "dl2") =>
        /\ GpgOf(p) \in dlChannels'
        /\ driver'[p].w2
        /\ driver'[p].pc = "wait"

\* The driver of p comes back to its select only from its wait, with both
\* events closed; an event it still waits for is in the in-flight table.
WaitsForBoth(p) ==
    /\ (driver[p].pc # "tick" /\ driver'[p].pc = "tick" /\ driver[p].pc # "none")
          => (driver[p].pc = "wait" /\ ~driver'[p].w1 /\ ~driver'[p].w2)
    /\ driver'[p].w1 => p \in dlChannels'
    /\ driver'[p].w2 => GpgOf(p) \in dlChannels'

C31_WitnessWait ==
    /\ driver[Release].pc = "wait"
    /\ driver[Release].w1 /\ ~driver[Release].w2

\* The driver of the Release was started once and the Release was downloaded
\* again since, by the driver's own tick or by a client.
Redownloaded(p) ==
    /\ driver[p].n = 1
    /\ p \in DOMAIN info
    /\ \E t \in TaskIds : /\ tasks[t].pc = "fin"
                          /\ tasks[t].path = p
                          /\ tasks[t].cause = "ok"

\* C38: at most one refresh driver is ever started for a Release or
\* InRelease path, across startup recovery, downloads and re-downloads.
C38_OneDriver == \A p \in Paths : driver[p].n <= 1

\* A recorded Release whose driver runs was stored again by a download that
\* started no second driver.
C38_Witness ==
    /\ Redownloaded(Release)
    /\ upReq[Release] = MaxReq
    /\ ticks = MaxTicks

\* ------------------------------------------------ Cacher and Storage claims
\* The paths that have an entry in the meta or the item storage.
Stored == DOMAIN meta.cache \cup DOMAIN items.cache

\* C32: every path that has an entry in the meta or item storage has a
\* record in Cacher.info, in every state where fiLock is not write-held,
\* the state right after startup recovery included.
C32_StoredIsRecorded == Stored \subseteq DOMAIN info

\* The part of C32 the code keeps: a step that gives a path an entry in a
\* storage leaves a record of it in Cacher.info, and no record of
\* Cacher.info is ever dropped.
C32_InsertRecords ==
    [][/\ (DOMAIN meta'.cache \cup DOMAIN items'.cache) \ Stored \subseteq DOMAIN info'
       /\ DOMAIN info \subseteq DOMAIN info']_vars

\* A download has stored Contents and recorded it while no Release lists it.
C32_Witness ==
    /\ Contents \in DOMAIN items.cache
    /\ Contents \in DOMAIN info
    /\ Release \notin DOMAIN info
    /\ \E t \in TaskIds : tasks[t].pc = "fin" /\ tasks[t].path = Contents
                          /\ tasks[t].cause = "ok"

\* The cacher was restarted on a cache directory that holds Contents: the
\* item storage has its entry and Cacher.info has no record of it.
C32_WitnessRecovered ==
    /\ Contents \in DOMAIN items.cache
    /\ Contents \notin DOMAIN info
    /\ \A t \in TaskIds : tasks[t].pc = "free"

\* -------------------------------------------------------------- reuse claims
\* The round of the loop for t is taken in this step.
RoundOf(t) == ru.pc = "run" /\ t \in ru.todo /\ ru'.last = t /\ ru'.n # ru.n

\* The published tree holds a record for the path of t that matches the
\* expected record.
Matches(t) ==
    /\ ru.has
    /\ PathKey(Expected(t)) \in DOMAIN ru.cur
    /\ Same(Expected(t), ru.cur[PathKey(Expected(t))])

\* The by-hash aliases of fi are in the info inf.
Aliased(inf, fi) == {MD5SumPath(fi), SHA1Path(fi), SHA256Path(fi)} \subseteq DOMAIN inf

\* The file of t is linked into the new tree, with its aliases when by-hash
\* is enabled, unless the link fails and the run with it; nothing is asked.
Reused(t) ==
    /\ ru'.asked = ru.asked
    /\ \/ ru'.pc = "idle"
       \/ /\ t[1] \in ru'.linked
          /\ PathKey(Expected(t)) \in DOMAIN ru'.info
          /\ Same(Expected(t), ru'.info[PathKey(Expected(t))])
          /\ ru.byhash => Aliased(ru'.info, ru'.info[PathKey(Expected(t))])

\* The file of t is asked from upstream and not linked.
Asked(t) == t[1] \in ru'.asked /\ t[1] \notin ru'.linked

C33_WitnessChanged ==
    /\ ru.pc = "run" /\ ru.has
    /\ "a" \in ru.asked /\ "b" \in ru.linked
    /\ <<"path", "a">> \in DOMAIN ru.cur

\* ------------------------------------------------------------- parser claims
\* The file is made of fields with values and of empty lines, and ends with
\* a field: paragraphs separated by one or more empty lines, possibly
\* preceded by empty lines.
Shaped(f) ==
    /\ f # <<>>
    /\ \A i \in 1..Len(f) : f[i].kind = "blank" \/ (f[i].kind = "field" /\ f[i].v # "")
    /\ f[Len(f)].kind = "field"

\* The paragraphs of a file of that shape, in order.
RECURSIVE ParagraphsOf(_, _, _)
ParagraphsOf(f, cur, acc) ==
    IF f = <<>>
    THEN IF cur = EmptyMap THEN acc ELSE Append(acc, cur)
    ELSE IF Head(f).kind = "blank"
    THEN ParagraphsOf(Tail(f), EmptyMap, IF cur = EmptyMap THEN acc ELSE Append(acc, cur))
    ELSE ParagraphsOf(Tail(f), AppendField(cur, Head(f).k, Head(f).v), acc)

\* C34: Read reports io.EOF only when the input is exhausted and no field
\* was collected: on a file of K paragraphs separated by one or more empty
\* lines, possibly preceded by empty lines, K calls of Read return the K
\* paragraphs in order and the next returns io.EOF.
C34_ReadsEveryParagraph ==
    (Shaped(prs.input) /\ prs.err = "EOF") =>
        /\ prs.rest = <<>>
        /\ prs.out = ParagraphsOf(prs.input, EmptyMap, <<>>)

\* The paragraphs of the file are separated by one empty line each and
\* nothing precedes the first.
SingleSpaced(f) ==
    /\ Shaped(f)
    /\ f[1].kind = "field"
    /\ \A i \in 1..(Len(f) - 1) : ~(f[i].kind = "blank" /\ f[i + 1].kind = "blank")

\* The part of C34 the code keeps: on a file whose paragraphs are separated
\* by exactly one empty line and that begins with a field, the calls of Read
\* return the paragraphs in order and then io.EOF, and no call fails.
C34_SingleSpacedReadsAll ==
    SingleSpaced(prs.input) =>
        /\ prs.err \in {"nil", "EOF"}
        /\ prs.err = "EOF" =>
              /\ prs.rest = <<>>
              /\ prs.out = ParagraphsOf(prs.input, EmptyMap, <<>>)
              /\ prs.reads > Len(prs.out)
        /\ prs.err = "nil" => prs.reads = Len(prs.out)

\* Two paragraphs separated by one empty line were returned and the third
\* call returned io.EOF.
C34_Witness ==
    /\ SingleSpaced(prs.input)
    /\ Len(prs.out) = 2
    /\ prs.err = "EOF" /\ prs.reads = 3

\* Read returned io.EOF at the empty line that precedes the only paragraph.
C34_WitnessEarly ==
    /\ Shaped(prs.input)
    /\ prs.err = "EOF" /\ prs.out = <<>> /\ prs.rest # <<>>

\* ------------------------------------------------------------ restart claims
\* The records the files of the meta directory list.
Listed(metaFiles) ==
    UNION {ExtractFileInfo(p[1], p[2], metaFiles[p]) : p \in DOMAIN metaFiles}

\* NewCacher on the directories gives a Cacher whose c.info holds every
\* record the meta files list.
Recovers(metaFiles, cacheFiles) ==
    /\ ~RecoveryError(metaFiles)
    /\ \A fi \in Listed(metaFiles) :
          /\ fi.path \in DOMAIN NewCacher(metaFiles, cacheFiles).info
          /\ NewCacher(metaFiles, cacheFiles).info[fi.path] = fi

\* C35: restart recovery succeeds from any state the cacher itself can
\* produce: on the meta and cache directories of every reachable state,
\* meta files accepted with unparsable contents included, NewCacher returns
\* a Cacher whose c.info holds every record the cached meta files list.
C35_RestartRecovers == Recovers(meta.files, items.files)

\* The part of C35 the code keeps: when every cached Release can be parsed,
\* NewCacher returns a Cacher with every listed record, and with a record
\* and a driver for the Release itself.
C35_ParsedRestartRecovers ==
    ~RecoveryError(meta.files) =>
        /\ Recovers(meta.files, items.files)
        /\ \A p \in DOMAIN meta.files :
              /\ p \in DOMAIN NewCacher(meta.files, items.files).info
              /\ p[2] = "Release" =>
                    NewCacher(meta.files, items.files).driver[p].pc = "tick"

\* A Release that lists Contents and Contents itself are in the directories.
C35_Witness ==
    /\ Release \in DOMAIN meta.files
    /\ ~RecoveryError(meta.files)
    /\ Listed(meta.files) # {}
    /\ upReq[Release] >= 1

\* The fetch task has stored a Release that cannot be parsed.
C35_WitnessBroken ==
    /\ Release \in DOMAIN meta.files
    /\ meta.files[Release] = Garbage

\* ------------------------------------------------------ cache period claims
\* A delayed deletion of p has its turn in this step.  Deletions of one path
\* wait for the same period, so the one that fires is the oldest pending.
Fires(p) == timers'[p] < timers[p]

\* The deferred function of a download of p runs in this step.
Completes(p) ==
    \E t \in TaskIds : tasks[t].pc = "fin" /\ tasks[t].path = p /\ tasks'[t].pc = "free"

\* The deletion that an earlier download of p scheduled is pending besides
\* that of the download that recorded the status of p.
EarlierPending(p) == p \in DOMAIN results /\ timers[p] >= 2

\* C36: a status recorded by a fetch for p stays for CachePeriod after that
\* fetch: it is removed by the delayed deletion of that same fetch or
\* overwritten by a later fetch, never deleted by the deletion an earlier
\* fetch for p has scheduled.
C36_StatusKeptForPeriod ==
    [][\A p \in Paths : (EarlierPending(p) /\ Fires(p)) => p \in DOMAIN results']_vars

\* The part of C36 the code keeps: the status of p changes or goes only in a
\* step of a delayed deletion of p or of the deferred function of a
\* download of p.
StatusChanges(p) ==
    \/ p \notin DOMAIN results'
    \/ results'[p] # results[p]

C36_OnlyTimerOrFetch ==
    [][\A p \in Paths : (p \in DOMAIN results /\ StatusChanges(p)) =>
                            (Fires(p) \/ Completes(p))]_vars

\* The status of the second download of Contents is recorded while the
\* deletion scheduled by the first is still pending.
C36_Witness ==
    /\ timers[Contents] = 2
    /\ Contents \in DOMAIN results
    /\ results[Contents] = StatusNotFound

\* The status is gone while the deletion of the download that recorded it is
\* still pending.
C36_WitnessEarly ==
    /\ timers[Contents] = 1
    /\ Contents \notin DOMAIN results
    /\ upReq[Contents] = 2
    /\ \A t \in TaskIds : tasks[t].pc = "free"

\* --------------------------------------------------- semaphore exit claims
\* C37: for a host with MaxConns = n > 0 the tokens in the channel and the
\* download goroutines that hold one always add up to n: a download gives
\* back the one token it took on every way out, and the send of
\* releaseSemaphore, made under hostLock, always finds room in the channel.
C37_TokensAddUp ==
    maxConns > 0 =>
        /\ Tokens(Host) + Cardinality(SemHolders(Host)) = maxConns
        /\ \A t \in TaskIds :
              tasks[t].pc = "fin" =>
                 /\ Host \in DOMAIN hostSem
                 /\ hostSem[Host] < maxConns
                 /\ ENABLED FetchCleanup(t)

\* A download whose context was done before its request was sent has left
\* and every token is back in the channel.
C37_Witness ==
    /\ Host \in DOMAIN hostSem
    /\ hostSem[Host] = maxConns
    /\ Contents \in DOMAIN results
    /\ results[Contents] = StatusInternalServerError
    /\ upReq[Contents] = 0
    /\ \A t \in TaskIds : tasks[t].pc = "free"

\* Every token is taken: one download is at its deferred function after an
\* error while the body was read, another waits for upstream.
C37_WitnessFull ==
    /\ maxConns = MaxConns
    /\ Tokens(Host) = 0
    /\ \E t \in TaskIds : tasks[t].pc = "fin" /\ tasks[t].resp.kind = "readerr"
    /\ \E t \in TaskIds : tasks[t].pc = "req"

\* ---------------------------------------------------- failed Insert claims
\* Insert is called in this step for a well-formed path and returns the
\* error of a system call.
InsertFails == call'.op = "Insert" /\ call'.err \in {"remove", "link"}

\* C39: when Storage.Insert returns an error for a well-formed path, the
\* store is left as it was before the call: the entry of the path, its
\* backing file, used and the LRU heap are unchanged.
C39_FailedInsertKeepsStore == [][InsertFails => cm' = cm]_vars

\* The failed Insert has dropped the entry it was to replace, with its file
\* and its size, and has touched nothing else.
OldEntryDropped ==
    /\ call'.path \in DOMAIN cm.cache
    /\ cm'.cache = MapDelete(cm.cache, call'.path)
    /\ cm'.files = MapDelete(cm.files, call'.path)
    /\ cm'.used = cm.used - cm.cache[call'.path].fi.size
    /\ cm'.lclock = cm.lclock

\* The part of C39 the code keeps: a failed Insert leaves the store as it
\* was when the path had no entry or when the old file could not be removed;
\* when the hardlink fails after the old file was removed, the old entry is
\* gone and nothing else has changed.
C39_FailedInsertOfNewPath ==
    [][InsertFails => IF call'.replaced /\ call'.err = "link"
                      THEN OldEntryDropped
                      ELSE cm' = cm]_vars

\* The hardlink of a path that had no entry has failed in a store that holds
\* other entries.
C39_Witness ==
    /\ call.op = "Insert" /\ call.err = "link" /\ ~call.replaced
    /\ DOMAIN cm.cache # {}
    /\ call.path \notin DOMAIN cm.cache

\* The hardlink that was to replace an entry has failed and the entry is
\* gone.
C39_WitnessReplaced ==
    /\ call.op = "Insert" /\ call.err = "link" /\ call.replaced
    /\ call.path \notin DOMAIN cm.cache
    /\ call.path \notin DOMAIN cm.files

\* ------------------------------------------------------ downloadFiles claims
\* close(results) was called at most once, and only after every download
\* goroutine that was started had sent its result.
ClosedOnceAfterAll ==
    /\ frun.closed <= 1
    /\ frun.rod \in {"closed", "returned"} <=> frun.closed = 1
    /\ frun.closed = 1 => \A f \in DOMAIN dl : dl[f].pc = "sent"

\* A download goroutine never finds the results channel or the semaphore
\* full: the results sent never exceed the capacity len(fil) of the channel,
\* and a goroutine that runs holds a token that is missing from the
\* semaphore.
SendsFindRoom ==
    /\ Cardinality(DOMAIN dl) <= Cardinality(fconf.files)
    /\ Fetching # {} => fsem + Cardinality(Fetching) <= fconf.maxConns

\* downloadFiles has returned, or it or one of its goroutines can take a
\* step.
ReturnsOrSteps == frun.rod # "returned" => ENABLED FilesStep

C40_PositiveReturns ==
    /\ ClosedOnceAfterAll
    /\ SendsFindRoom
    /\ fconf.maxConns > 0 => ReturnsOrSteps

\* The receiver has returned on the error of one result while the other
\* download was running; that one has sent its result, which nobody
\* receives, the channel is closed and downloadFiles has returned.
C40_Witness ==
    /\ frun.rod = "returned" /\ frun.closed = 1
    /\ frun.pc = "failed" /\ frun.err = "download"
    /\ Cardinality(DOMAIN dl) = 2
    /\ frun.handled # DOMAIN dl

\* Under max_conns = 0 the loop waits for a token with nothing cancelled.
C40_WitnessStuck ==
    /\ fconf.maxConns = 0
    /\ frun.rod = "loop" /\ frun.todo # {} /\ ~frun.cancelled
====
